---- MODULE Spec2Model ----
(***************************************************************************)
(* Model of the application reconciliation engine of k8-automation         *)
(* (src/src/k8.ts): upsertApplication and deleteApplication run against a  *)
(* Kubernetes cluster, the shared ingress algebra (ingressPatch,           *)
(* ingressRemove), the spec overlays and the retry wrapper retryP.         *)
(*                                                                         *)
(* The cluster is the external Kube Resource API: one namespace NS with    *)
(* its services, deployments and the one ingress "atm-ingress".  Every     *)
(* promise continuation that issues an API call is one step of a process.  *)
(***************************************************************************)
EXTENDS Integers, Sequences, FiniteSets, TLC

\* ------------------------------------------------------------------ bounds
MaxOps == 2        \* operations started one after another in one behaviour
MaxEvents == 2     \* events handled in one behaviour
MaxInitPaths == 2  \* paths of a rule of the ingress the algebra starts from
MaxFaults == 1     \* transient API failures injected in one behaviour

\* ------------------------------------------------------- program constants
retries == 5       \* defaultRetryOptions.retries

Procs == {1, 2}    \* goals of one event are handled concurrently

NoHost == ""       \* KubeApplication.host not provided
NoPath == ""       \* KubeApplication.path not provided
NoPort == 0        \* KubeApplication.port not provided
NoSpec == ""       \* deploymentSpec / serviceSpec not provided

\* The overlay texts of the model (KubeApplication.deploymentSpec/serviceSpec).
BadJson == "{"
ReplicasSpec == "{\"spec\":{\"replicas\":3}}"
NameSpec == "{\"metadata\":{\"name\":\"x\"}}"
LabelsSpec == "{\"metadata\":{\"labels\":{\"tier\":\"web\"}}}"
ContainersSpec == "{\"spec\":{\"template\":{\"spec\":{\"containers\":[{\"name\":\"x\",\"image\":\"i9\"}]}}}}"

creator == "atomist.k8-automation"

ResNames == {"a", "b", "x"}   \* metadata.name of services and deployments

\* ------------------------------------------------------------- descriptors
App(n, i, po, pa, h, ds, ss) ==
    [name |-> n, image |-> i, port |-> po, path |-> pa, host |-> h,
     deploymentSpec |-> ds, serviceSpec |-> ss]

\* Descriptors without overlays: every combination of port, path and host.
PlainApps ==
    { App(n, "i1", po, pa, h, NoSpec, NoSpec) :
        n \in {"a", "b"}, po \in {NoPort, 80}, pa \in {NoPath, "/p", "/q"},
        h \in {NoHost, "h"} }

\* A redeploy of application a with a new image.
ImageApps == { App("a", "i2", 80, "/p", "h", NoSpec, NoSpec) }

\* Application a with a deployment or service overlay.
OverlayApps ==
    { App("a", "i1", 80, "/p", "h", ds, NoSpec) :
        ds \in {BadJson, ReplicasSpec, NameSpec, ContainersSpec} }
    \cup { App("a", "i1", 80, "/p", "h", NoSpec, ss) : ss \in {BadJson, NameSpec} }

Apps == PlainApps \cup ImageApps \cup OverlayApps

\* KubeDelete = Pick<KubeApplication, "name" | "ns" | "path" | "host">
DeleteReqs == { App(n, "", NoPort, pa, h, NoSpec, NoSpec) :
                  n \in {"a", "b"}, pa \in {NoPath, "/p", "/q"}, h \in {NoHost, "h"} }

\* ------------------------------------------------------------------- state
VARIABLES
    cluster,   \* the resources of namespace NS as the API server holds them
    proc,      \* per process: the running upsertApplication / deleteApplication
    nOps,      \* operations started so far
    faults     \* transient API failures injected so far

vars == <<cluster, proc, nOps, faults>>

NoDep == [exists |-> FALSE, containers |-> <<>>, replicas |-> 0]
NoIngress == [exists |-> FALSE, rules |-> <<>>]

\* deny: the kinds of resource whose mutating calls the API server rejects
\* every time (the caller is not allowed to change them).
EmptyCluster ==
    [ns |-> FALSE, svc |-> {}, dep |-> [n \in ResNames |-> NoDep], ing |-> NoIngress,
     deny |-> {}]

NoReq == App("", "", NoPort, NoPath, NoHost, NoSpec, NoSpec)
NoBody == [kind |-> "none", rules |-> <<>>]

\* No goal is being handled; a promise of a HandlerResult that is not settled.
NoTask == [none |-> TRUE]
Pending == [settled |-> "pending", code |-> 0]

Idle ==
    [pc |-> "idle", op |-> "none", req |-> NoReq, att |-> 0, body |-> NoBody,
     log |-> <<>>, out |-> "none", err |-> <<>>, errs |-> <<>>,
     faulted |-> FALSE, run |-> 0, snap |-> EmptyCluster, firstClean |-> FALSE,
     cause |-> "", task |-> NoTask, updates |-> <<>>, result |-> Pending,
     handled |-> Pending, cleanup |-> <<>>, status |-> ""]
\* log: the API calls issued so far by the running operation; snap: the cluster
\* when it started; faulted: a transient failure was injected into it; run: 2 for
\* the repeated upsert, firstClean: its first run met no transient failure;
\* cause: the message of the error of the latest call that failed.
\* task: the goal KubeDeploy.handle is handling, with its commit and the handler;
\* updates: the updateGoal calls made for it; result: what the promise of the
\* goal settled to; handled: what the promise of handle settled to.
\* cleanup: the cleanup actions googleContainerBuild has registered; status: the
\* status of the build it polled.

\* ------------------------------------------------------------ small helpers
\* Array.prototype.findIndex: first index whose element satisfies P, 0 if none.
FindIndex(s, P(_)) ==
    IF \E i \in 1..Len(s) : P(s[i])
    THEN CHOOSE i \in 1..Len(s) : P(s[i]) /\ \A j \in 1..(i - 1) : ~P(s[j])
    ELSE 0

\* Array.prototype.splice(i, 1)
Splice(s, i) == [j \in 1..(Len(s) - 1) |-> IF j < i THEN s[j] ELSE s[j + 1]]

\* ------------------------------------------------------- resource templates
\* A JSON value: an object (a function of its keys), an array (a sequence) or a
\* string or number.
Obj(f) == [obj |-> f]
Arr(s) == [arr |-> s]
Val(v) == [val |-> v]
Undefined == [undefined |-> TRUE]

IsObj(v) == DOMAIN v = {"obj"}
IsArr(v) == DOMAIN v = {"arr"}
IsUndefined(v) == DOMAIN v = {"undefined"}

\* JSON.parse of an overlay text.
JSONParse(text) ==
    CASE text = ReplicasSpec ->
             [ok |-> TRUE, value |-> Obj([spec |-> Obj([replicas |-> Val(3)])])]
      [] text = NameSpec ->
             [ok |-> TRUE, value |-> Obj([metadata |-> Obj([name |-> Val("x")])])]
      [] text = LabelsSpec ->
             [ok |-> TRUE,
              value |-> Obj([metadata |-> Obj([labels |-> Obj([tier |-> Val("web")])])])]
      [] text = ContainersSpec ->
             [ok |-> TRUE,
              value |-> Obj([spec |-> Obj([template |-> Obj([spec |-> Obj([containers |->
                            Arr(<<Obj([name |-> Val("x"), image |-> Val("i9")])>>)])])])])]
      [] OTHER -> [ok |-> FALSE, value |-> Undefined]

\* Mutant: the customizer leaves arrays to the default merge.
smartMergeNoArrays(objValue, srcValue) == Undefined

\* The customizer of the merge: an array of the source is the result as it is;
\* for any other value it returns undefined and the default merge applies.
smartMerge(objValue, srcValue) == IF IsArr(srcValue) THEN srcValue ELSE Undefined

\* _.mergeWith(object, source, smartMerge): every key of the source is merged
\* into the object.  For a key the customizer does not settle: an array or an
\* object of the source is merged recursively into the value of the object (a
\* fresh array or object when that value is not one), any other value of the
\* source replaces the value of the object.  A key the source does not have
\* keeps its value.  (The keys of the overlays of the model are names, not
\* indices: merged into an array they are properties that are not serialised.)
RECURSIVE mergeWith(_, _)
mergeWith(object, source) ==
    LET Has(v, k) == IF IsObj(v) THEN k \in DOMAIN v.obj ELSE k \in 1..Len(v.arr)
        At(v, k) == IF IsObj(v) THEN v.obj[k] ELSE v.arr[k]
        Merged(k) ==
            LET srcValue == At(source, k)
                objValue == IF Has(object, k) THEN At(object, k) ELSE Undefined
                newValue == smartMerge(objValue, srcValue)
            IN  IF ~IsUndefined(newValue) THEN newValue
                ELSE IF IsArr(srcValue)
                THEN mergeWith(IF IsArr(objValue) THEN objValue ELSE Arr(<<>>), srcValue)
                ELSE IF IsObj(srcValue)
                THEN IF IsArr(objValue) THEN objValue
                     ELSE mergeWith(IF IsObj(objValue) THEN objValue ELSE Obj(<<>>), srcValue)
                ELSE srcValue
    IN  IF IsObj(object)
        THEN Obj([k \in DOMAIN object.obj \cup DOMAIN source.obj |->
                     IF Has(source, k) THEN Merged(k) ELSE At(object, k)])
        ELSE Arr([k \in 1..(IF Len(source.arr) > Len(object.arr) THEN Len(source.arr)
                            ELSE Len(object.arr)) |->
                     IF Has(source, k) THEN Merged(k) ELSE At(object, k)])

\* The fields of a deployment or service that the cluster of the model keeps.
Stored(doc) ==
    [name |-> doc.obj.metadata.obj.name.val,
     replicas |-> IF "replicas" \in DOMAIN doc.obj.spec.obj
                  THEN doc.obj.spec.obj.replicas.val ELSE 0,
     containers |->
         IF "template" \in DOMAIN doc.obj.spec.obj
         THEN LET cs == doc.obj.spec.obj.template.obj.spec.obj.containers.arr
              IN  [i \in 1..Len(cs) |-> [name |-> cs[i].obj.name.val,
                                         image |-> cs[i].obj.image.val]]
         ELSE <<>>]

\* The default deployment: the fields of the template that the overlays of the
\* model meet or leave alone.
deploymentDefault(req) ==
    Obj([kind |-> Val("Deployment"),
         metadata |-> Obj([name |-> Val(req.name),
                           labels |-> Obj([app |-> Val(req.name), creator |-> Val(creator)])]),
         spec |-> Obj([replicas |-> Val(1),
                       revisionHistoryLimit |-> Val(3),
                       template |-> Obj([spec |-> Obj([
                           containers |-> Arr(<<Obj([name |-> Val(req.name),
                                                     image |-> Val(req.image),
                                                     imagePullPolicy |-> Val("IfNotPresent")])>>),
                           restartPolicy |-> Val("Always")])]),
                       strategy |-> Obj([type |-> Val("RollingUpdate")])])])

\* Mutant: an overlay that does not parse is ignored.
deploymentTemplateNoParse(req) ==
    [ok |-> TRUE, res |-> Stored(deploymentDefault(req)), doc |-> deploymentDefault(req)]

\* ok: the template was built; doc: the resource; res: what the cluster keeps of it.
deploymentTemplate(req) ==
    LET d == deploymentDefault(req)
        depSpec == JSONParse(req.deploymentSpec)
        doc == IF req.deploymentSpec = NoSpec THEN d
               ELSE IF depSpec.ok THEN mergeWith(d, depSpec.value) ELSE d
    IN  [ok |-> req.deploymentSpec = NoSpec \/ depSpec.ok, res |-> Stored(doc), doc |-> doc]

serviceDefault(req) ==
    Obj([kind |-> Val("Service"),
         metadata |-> Obj([name |-> Val(req.name),
                           labels |-> Obj([app |-> Val(req.name), creator |-> Val(creator)])]),
         spec |-> Obj([ports |-> Arr(<<Obj([name |-> Val("http"), port |-> Val(req.port)])>>),
                       selector |-> Obj([app |-> Val(req.name)]),
                       type |-> Val("NodePort")])])

serviceTemplate(req) ==
    LET s == serviceDefault(req)
        svcSpec == JSONParse(req.serviceSpec)
        doc == IF req.serviceSpec = NoSpec THEN s
               ELSE IF svcSpec.ok THEN mergeWith(s, svcSpec.value) ELSE s
    IN  [ok |-> req.serviceSpec = NoSpec \/ svcSpec.ok, res |-> Stored(doc), doc |-> doc]

httpIngressPath(req) == [path |-> req.path, serviceName |-> req.name]

ingressTemplate(req) ==
    <<[host |-> req.host, paths |-> <<httpIngressPath(req)>>]>>

\* ----------------------------------------------------------- ingress algebra
\* Mutant: the rule of the host is never found.
RuleIndexNotFound(rules, req) == 0

\* (req.host) ? rules.findIndex(r => r.host === req.host) : rules.findIndex(r => !r.host)
RuleIndex(rules, req) == FindIndex(rules, LAMBDA r : r.host = req.host)

\* Mutant: a path held by another service is taken over.
ingressPatchOverwrite(ing, req) ==
    LET rules == ing.rules
        ruleIndex == RuleIndex(rules, req)
    IN  IF ruleIndex = 0
        THEN [kind |-> "patch",
              rules |-> Append(rules, [host |-> req.host, paths |-> <<httpIngressPath(req)>>])]
        ELSE [kind |-> "patch",
              rules |-> [rules EXCEPT ![ruleIndex].paths =
                             Append(SelectSeq(@, LAMBDA q : q.path # req.path),
                                    httpIngressPath(req))]]

\* Mutant: a new path is put in front of the paths of its rule.
ingressPatchFront(ing, req) ==
    LET rules == ing.rules
        ruleIndex == RuleIndex(rules, req)
    IN  IF ruleIndex = 0
        THEN [kind |-> "patch",
              rules |-> Append(rules, [host |-> req.host, paths |-> <<httpIngressPath(req)>>])]
        ELSE LET paths == rules[ruleIndex].paths
                 pi == FindIndex(paths, LAMBDA q : q.path = req.path)
             IN  IF pi # 0
                 THEN IF paths[pi].serviceName # req.name
                      THEN [kind |-> "throw", rules |-> rules]
                      ELSE [kind |-> "none", rules |-> rules]
                 ELSE [kind |-> "patch",
                       rules |-> [rules EXCEPT ![ruleIndex].paths =
                                      <<httpIngressPath(req)>> \o paths]]

\* Mutant: a path the service already holds is added once more.
ingressPatchAgain(ing, req) ==
    LET rules == ing.rules
        ruleIndex == RuleIndex(rules, req)
    IN  IF ruleIndex = 0
        THEN [kind |-> "patch",
              rules |-> Append(rules, [host |-> req.host, paths |-> <<httpIngressPath(req)>>])]
        ELSE LET paths == rules[ruleIndex].paths
                 pi == FindIndex(paths, LAMBDA q : q.path = req.path)
             IN  IF pi # 0 /\ paths[pi].serviceName # req.name
                 THEN [kind |-> "throw", rules |-> rules]
                 ELSE [kind |-> "patch",
                       rules |-> [rules EXCEPT ![ruleIndex].paths =
                                      Append(paths, httpIngressPath(req))]]

ingressPatch(ing, req) ==
    LET rules == ing.rules
        ruleIndex == RuleIndex(rules, req)
    IN  IF ruleIndex = 0
        THEN [kind |-> "patch",
              rules |-> Append(rules, [host |-> req.host, paths |-> <<httpIngressPath(req)>>])]
        ELSE LET paths == rules[ruleIndex].paths
                 pi == FindIndex(paths, LAMBDA p : p.path = req.path)
             IN  IF pi # 0
                 THEN IF paths[pi].serviceName # req.name
                      THEN [kind |-> "throw", rules |-> rules]
                      ELSE [kind |-> "none", rules |-> rules]
                 ELSE [kind |-> "patch",
                       rules |-> [rules EXCEPT ![ruleIndex].paths =
                                      Append(paths, httpIngressPath(req))]]

\* Mutant: the path is removed whatever service it is bound to.
ingressRemoveAnyOwner(ing, req) ==
    LET rules == ing.rules
        ruleIndex == RuleIndex(rules, req)
    IN  IF ~ing.exists \/ Len(rules) < 1 \/ ruleIndex = 0
        THEN [kind |-> "none", rules |-> rules]
        ELSE LET paths == rules[ruleIndex].paths
                 pathIndex == FindIndex(paths, LAMBDA q : q.path = req.path)
             IN  IF pathIndex = 0 THEN [kind |-> "none", rules |-> rules]
                 ELSE [kind |-> "patch",
                       rules |-> [rules EXCEPT ![ruleIndex].paths = Splice(paths, pathIndex)]]

\* Mutant: a rule that has lost its last path stays in the rules.
ingressRemoveKeepsEmpty(ing, req) ==
    LET rules == ing.rules
        ruleIndex == RuleIndex(rules, req)
    IN  IF ~ing.exists \/ Len(rules) < 1 \/ ruleIndex = 0
        THEN [kind |-> "none", rules |-> rules]
        ELSE LET paths == rules[ruleIndex].paths
                 pathIndex == FindIndex(paths, LAMBDA q : q.path = req.path)
             IN  IF pathIndex = 0 THEN [kind |-> "none", rules |-> rules]
                 ELSE IF paths[pathIndex].serviceName # req.name
                 THEN [kind |-> "throw", rules |-> rules]
                 ELSE [kind |-> "patch",
                       rules |-> [rules EXCEPT ![ruleIndex].paths = Splice(paths, pathIndex)]]

ingressRemove(ing, req) ==
    LET rules == ing.rules
        ruleIndex == RuleIndex(rules, req)
    IN  IF ~ing.exists \/ Len(rules) < 1 \/ ruleIndex = 0
        THEN [kind |-> "none", rules |-> rules]
        ELSE LET paths == rules[ruleIndex].paths
                 pathIndex == FindIndex(paths, LAMBDA p : p.path = req.path)
             IN  IF pathIndex = 0 THEN [kind |-> "none", rules |-> rules]
                 ELSE IF paths[pathIndex].serviceName # req.name
                 THEN [kind |-> "throw", rules |-> rules]
                 ELSE IF Len(paths) - 1 < 1
                 THEN IF Len(rules) - 1 < 1
                      THEN [kind |-> "empty", rules |-> <<>>]
                      ELSE [kind |-> "patch", rules |-> Splice(rules, ruleIndex)]
                 ELSE [kind |-> "patch",
                       rules |-> [rules EXCEPT ![ruleIndex].paths = Splice(paths, pathIndex)]]

\* ---------------------------------------------------------- Kube Resource API
\* Strategic merge patch of spec.template.spec.containers (merge key "name"):
\* a container of that name takes the patch's image, else the entry is added.
PatchContainers(cs, c) ==
    IF \E i \in 1..Len(cs) : cs[i].name = c.name
    THEN [i \in 1..Len(cs) |-> IF cs[i].name = c.name THEN [cs[i] EXCEPT !.image = c.image]
                                ELSE cs[i]]
    ELSE Append(cs, c)

NamespacePost(c) == [c EXCEPT !.ns = TRUE]
ServicePost(c, svc) == [c EXCEPT !.svc = @ \cup {svc.name}]
ServiceDelete(c, name) == [c EXCEPT !.svc = @ \ {name}]
DeploymentPost(c, d) ==
    [c EXCEPT !.dep[d.name] = [exists |-> TRUE, containers |-> d.containers,
                               replicas |-> d.replicas]]
\* Mutant: the patch replaces the deployment by the default template.
DeploymentPatchFull(c, name, container) ==
    [c EXCEPT !.dep[name] = [exists |-> TRUE, containers |-> <<container>>, replicas |-> 1]]

DeploymentPatch(c, name, container) ==
    [c EXCEPT !.dep[name].containers = PatchContainers(@, container)]
DeploymentDelete(c, name) == [c EXCEPT !.dep[name] = NoDep]
IngressPost(c, rules) == [c EXCEPT !.ing = [exists |-> TRUE, rules |-> rules]]
\* A patch body {spec: {rules}} replaces the rules; the body {} changes nothing.
IngressPatch(c, body) ==
    IF body.kind = "empty" THEN c ELSE [c EXCEPT !.ing.rules = body.rules]
IngressDelete(c) == [c EXCEPT !.ing = NoIngress]

\* ------------------------------------------------------------ process steps
FaultChoice == IF faults < MaxFaults THEN {FALSE, TRUE} ELSE {FALSE}

Logged(pr, k, v, ok, fault) ==
    [pr EXCEPT !.log = Append(@, [kind |-> k, verb |-> v, ok |-> ok]),
               !.faulted = @ \/ fault,
               !.cause = IF ok THEN @ ELSE IF fault THEN "timeout" ELSE "refused"]

Goto(pr, pc) == [pr EXCEPT !.pc = pc, !.att = 1]
Resolve(pr) == [pr EXCEPT !.pc = "done", !.out = "resolved"]

\* Mutant: the prefix is put behind the message.
preErrMsgBehind(e, prefix) == e \o <<prefix>>

\* preErrMsg(e, prefix): the prefix is put in front of the message.
preErrMsg(e, prefix) == <<prefix>> \o e

\* Mutant: the error of a step is swallowed and the chain goes on.
UpsertRejectSwallowed(pr, e) == [pr EXCEPT !.pc = "ing_get", !.att = 1]

\* The .catch of upsertApplication.
UpsertReject(pr, e) ==
    [pr EXCEPT !.pc = "done", !.out = "rejected", !.err = preErrMsg(e, "upserting failed")]

\* An existence-check read issued once: onOk when the resource is there and the
\* call goes through, onFail on any failure.
Get(p, k, exists, onOk(_), onFail(_)) ==
    \E fault \in FaultChoice :
        LET ok == exists /\ ~fault
            pr == Logged(proc[p], k, "get", ok, fault)
        IN  /\ faults' = faults + (IF fault THEN 1 ELSE 0)
            /\ proc' = [proc EXCEPT ![p] = IF ok THEN onOk(pr) ELSE onFail(pr)]
            /\ UNCHANGED <<cluster, nOps>>

\* Mutant: a failed call is attempted once more than the policy allows.
promiseRetryOnceMore(att, ok) ==
    IF ok THEN "resolve" ELSE IF att < 2 + retries THEN "retry" ELSE "reject"

\* promiseRetry(defaultRetryOptions, ...): what becomes of the wrapped call
\* after its attempt number att: its result is returned when it succeeded, it
\* is run again when it failed and was attempted less than 1 + retries times,
\* else the last error is thrown.
promiseRetry(att, ok) ==
    IF ok THEN "resolve" ELSE IF att < 1 + retries THEN "retry" ELSE "reject"

\* One attempt of a call wrapped by retryP; the final error is prefixed by
\* "Failed to <desc>".
retryP(p, k, v, accepted, after, desc, onOk(_), onFail(_, _)) ==
    \E fault \in FaultChoice :
        LET ok == accepted /\ ~fault /\ (v = "get" \/ k \notin cluster.deny)
            pr == Logged(proc[p], k, v, ok, fault)
            then == promiseRetry(pr.att, ok)
        IN  /\ faults' = faults + (IF fault THEN 1 ELSE 0)
            /\ cluster' = IF ok /\ v # "get" THEN after ELSE cluster
            /\ proc' = [proc EXCEPT ![p] =
                   IF then = "resolve" THEN onOk(pr)
                   ELSE IF then = "retry" THEN [pr EXCEPT !.att = @ + 1]
                   ELSE onFail(pr, preErrMsg(<<pr.cause>>, desc))]
            /\ UNCHANGED nOps

\* upsertApplication: the steps are chained with .then, each started when the
\* one before has resolved.
\* Mutant: the service step is left out of the chain.
AfterNamespaceSkipService(pr) == Goto(pr, "dep_get")

AfterNamespace(pr) == Goto(pr, IF pr.req.port # NoPort THEN "svc_get" ELSE "dep_get")
AfterService(pr) == Goto(pr, "dep_get")
\* Mutant: the ingress step does not look at the path.
AfterDeploymentAlwaysIngress(pr) == Goto(pr, "ing_get")

AfterDeployment(pr) == IF pr.req.path # NoPath THEN Goto(pr, "ing_get") ELSE Resolve(pr)
AfterIngress(pr) == Resolve(pr)

\* Mutant: an upsert waits while another one of the same application runs.
upsertNamespaceGetExclusive(p) ==
    /\ proc[p].pc = "ns_get"
    /\ \A q \in Procs \ {p} :
          proc[q].pc \in {"idle", "done"} \/ proc[q].req.name # proc[p].req.name \/ q > p
    /\ Get(p, "namespace", cluster.ns, AfterNamespace, LAMBDA pr : Goto(pr, "ns_post"))

upsertNamespaceGet(p) ==
    /\ proc[p].pc = "ns_get"
    /\ Get(p, "namespace", cluster.ns, AfterNamespace, LAMBDA pr : Goto(pr, "ns_post"))

upsertNamespacePost(p) ==
    /\ proc[p].pc = "ns_post"
    /\ retryP(p, "namespace", "post", ~cluster.ns, NamespacePost(cluster),
              "Failed to Create namespace", AfterNamespace, UpsertReject)

upsertServiceGet(p) ==
    /\ proc[p].pc = "svc_get"
    /\ Get(p, "service", proc[p].req.name \in cluster.svc, AfterService,
           LAMBDA pr : IF serviceTemplate(pr.req).ok THEN Goto(pr, "svc_post")
                       ELSE UpsertReject(pr, <<"Failed to parse provided service spec as JSON">>))

upsertServicePost(p) ==
    LET svc == serviceTemplate(proc[p].req).res
    IN  /\ proc[p].pc = "svc_post"
        /\ retryP(p, "service", "post", cluster.ns /\ svc.name \notin cluster.svc,
                  ServicePost(cluster, svc), "Failed to create service",
                  AfterService, UpsertReject)

upsertDeploymentGet(p) ==
    /\ proc[p].pc = "dep_get"
    /\ Get(p, "deployment", cluster.dep[proc[p].req.name].exists,
           LAMBDA pr : Goto(pr, "dep_patch"),
           LAMBDA pr : IF deploymentTemplate(pr.req).ok THEN Goto(pr, "dep_post")
                       ELSE UpsertReject(pr, <<"Failed to parse provided deployment spec as JSON">>))

\* Mutant: the patch names the container and leaves its image out.
deploymentPatchNoImage(req) == [name |-> req.name, image |-> "i0"]

\* The patch of an existing deployment: the container's name and image.
deploymentPatch(req) == [name |-> req.name, image |-> req.image]

upsertDeploymentPatch(p) ==
    LET req == proc[p].req
    IN  /\ proc[p].pc = "dep_patch"
        /\ retryP(p, "deployment", "patch", cluster.dep[req.name].exists,
                  DeploymentPatch(cluster, req.name, deploymentPatch(req)),
                  "Failed to patch deployment", AfterDeployment, UpsertReject)

upsertDeploymentPost(p) ==
    LET dep == deploymentTemplate(proc[p].req).res
    IN  /\ proc[p].pc = "dep_post"
        /\ retryP(p, "deployment", "post", cluster.ns /\ ~cluster.dep[dep.name].exists,
                  DeploymentPost(cluster, dep), "Failed to create deployment",
                  AfterDeployment, UpsertReject)

\* The ingress read by the get is patched by ingressPatch in the same
\* continuation; the patch body is sent by the retried call that follows.
upsertIngressGet(p) ==
    /\ proc[p].pc = "ing_get"
    /\ Get(p, "ingress", cluster.ing.exists,
           LAMBDA pr : LET patch == ingressPatch(cluster.ing, pr.req)
                       IN  IF patch.kind = "throw"
                           THEN UpsertReject(pr, <<"Cannot use path, it is already in use">>)
                           ELSE IF patch.kind = "none" THEN AfterIngress(pr)
                           ELSE [Goto(pr, "ing_patch") EXCEPT !.body = patch],
           LAMBDA pr : [Goto(pr, "ing_post") EXCEPT
                           !.body = [kind |-> "patch", rules |-> ingressTemplate(pr.req)]])

upsertIngressPatch(p) ==
    /\ proc[p].pc = "ing_patch"
    /\ retryP(p, "ingress", "patch", cluster.ing.exists,
              IngressPatch(cluster, proc[p].body), "Failed to patch ingress",
              AfterIngress, UpsertReject)

upsertIngressPost(p) ==
    /\ proc[p].pc = "ing_post"
    /\ retryP(p, "ingress", "post", cluster.ns /\ ~cluster.ing.exists,
              IngressPost(cluster, proc[p].body.rules), "Failed to create ingress",
              AfterIngress, UpsertReject)

\* deleteApplication: deleteIngress, deleteService and deleteDeployment are
\* chained with .catch/.then; an error of one is pushed on errs and the chain
\* goes on.
DeleteFinish(pr) ==
    IF Len(pr.errs) > 0
    THEN [pr EXCEPT !.pc = "done", !.out = "rejected",
                    !.err = preErrMsg(pr.errs, "Failed to delete application")]
    ELSE Resolve(pr)

\* Mutant: the deployment deletion follows the ingress-rule removal directly.
AfterDeleteIngressSkipService(pr) == Goto(pr, "dd_get")

AfterDeleteIngress(pr) == Goto(pr, "ds_get")
AfterDeleteService(pr) == Goto(pr, "dd_get")
AfterDeleteDeployment(pr) == DeleteFinish(pr)

\* Mutant: a failed ingress-rule removal ends the chain.
FailDeleteIngressAborts(pr, e) ==
    DeleteFinish([pr EXCEPT !.errs = Append(@, "failed to remove rule from ingress")])

FailDeleteIngress(pr, e) ==
    AfterDeleteIngress([pr EXCEPT !.errs = Append(@, "failed to remove rule from ingress")])
\* Mutant: a failed service deletion is not recorded.
FailDeleteServiceSilent(pr, e) == AfterDeleteService(pr)

FailDeleteService(pr, e) ==
    AfterDeleteService([pr EXCEPT !.errs = Append(@, "failed to delete service")])
FailDeleteDeployment(pr, e) ==
    AfterDeleteDeployment([pr EXCEPT !.errs = Append(@, "failed to delete deployment")])

\* patch === {}: an object is never identical to a fresh object literal.
IsEmptyObjectLiteral(patch) == FALSE

\* The get of deleteIngress is wrapped by retryP; when it fails for good the
\* ingress is taken not to exist.
deleteIngressGet(p) ==
    /\ proc[p].pc = "di_get"
    /\ retryP(p, "ingress", "get", cluster.ing.exists, cluster, "Failed to get ingress",
              LAMBDA pr : LET patch == ingressRemove(cluster.ing, pr.req)
                          IN  IF patch.kind = "throw"
                              THEN FailDeleteIngress(pr, <<"Will not remove path">>)
                              ELSE IF patch.kind = "none" THEN AfterDeleteIngress(pr)
                              ELSE [Goto(pr, "di_write") EXCEPT !.body = patch],
              LAMBDA pr, e : AfterDeleteIngress(pr))

deleteIngressWrite(p) ==
    /\ proc[p].pc = "di_write"
    /\ IF IsEmptyObjectLiteral(proc[p].body)
       THEN retryP(p, "ingress", "delete", cluster.ing.exists, IngressDelete(cluster),
                   "Failed to delete ingress", AfterDeleteIngress, FailDeleteIngress)
       ELSE retryP(p, "ingress", "patch", cluster.ing.exists,
                   IngressPatch(cluster, proc[p].body),
                   "Failed to remove path from ingress", AfterDeleteIngress, FailDeleteIngress)

deleteServiceGet(p) ==
    /\ proc[p].pc = "ds_get"
    /\ Get(p, "service", proc[p].req.name \in cluster.svc,
           LAMBDA pr : Goto(pr, "ds_delete"), AfterDeleteService)

deleteServiceDelete(p) ==
    /\ proc[p].pc = "ds_delete"
    /\ retryP(p, "service", "delete", proc[p].req.name \in cluster.svc,
              ServiceDelete(cluster, proc[p].req.name), "Failed to delete service",
              AfterDeleteService, FailDeleteService)

deleteDeploymentGet(p) ==
    /\ proc[p].pc = "dd_get"
    /\ Get(p, "deployment", cluster.dep[proc[p].req.name].exists,
           LAMBDA pr : Goto(pr, "dd_delete"), AfterDeleteDeployment)

deleteDeploymentDelete(p) ==
    /\ proc[p].pc = "dd_delete"
    /\ retryP(p, "deployment", "delete", cluster.dep[proc[p].req.name].exists,
              DeploymentDelete(cluster, proc[p].req.name), "Failed to delete deployment",
              AfterDeleteDeployment, FailDeleteDeployment)

\* ------------------------------------------------------------- entry points
Begin(op, req, pc) ==
    [Idle EXCEPT !.pc = pc, !.op = op, !.req = req, !.att = 1, !.run = 1, !.snap = cluster]

AllIdle == \A q \in Procs : proc[q].pc = "idle"

\* upsertApplication(upReq), called while nothing else runs on the cluster.
upsertApplication(p, req) ==
    /\ AllIdle
    /\ nOps < MaxOps
    /\ nOps' = nOps + 1
    /\ proc' = [proc EXCEPT ![p] = Begin("upsert", req, "ns_get")]
    /\ UNCHANGED <<cluster, faults>>

\* deleteApplication(delReq), called while nothing else runs on the cluster.
deleteApplication(p, req) ==
    /\ AllIdle
    /\ nOps < MaxOps
    /\ nOps' = nOps + 1
    /\ proc' = [proc EXCEPT ![p] =
           Begin("delete", req, IF req.path # NoPath THEN "di_get" ELSE "ds_get")]
    /\ UNCHANGED <<cluster, faults>>

\* The same upsertApplication request run a second time, right after the first
\* has resolved.
upsertAgain(p) ==
    /\ proc[p].pc = "done" /\ proc[p].op = "upsert" /\ proc[p].out = "resolved"
    /\ proc[p].run = 1
    /\ nOps < MaxOps
    /\ nOps' = nOps + 1
    /\ proc' = [proc EXCEPT ![p] =
           [Begin("upsert", proc[p].req, "ns_get") EXCEPT
               !.run = 2, !.firstClean = ~proc[p].faulted]]
    /\ UNCHANGED <<cluster, faults>>

\* The same deleteApplication request run a second time, right after the first
\* has resolved.
deleteAgain(p) ==
    /\ proc[p].pc = "done" /\ proc[p].op = "delete" /\ proc[p].out = "resolved"
    /\ proc[p].run = 1
    /\ nOps < MaxOps
    /\ nOps' = nOps + 1
    /\ proc' = [proc EXCEPT ![p] =
           [Begin("delete", proc[p].req,
                  IF proc[p].req.path # NoPath THEN "di_get" ELSE "ds_get") EXCEPT
               !.run = 2, !.firstClean = ~proc[p].faulted]]
    /\ UNCHANGED <<cluster, faults>>

\* The caller has taken the result of the promise.
Return(p) ==
    /\ proc[p].pc = "done"
    /\ proc' = [proc EXCEPT ![p] = Idle]
    /\ UNCHANGED <<cluster, nOps, faults>>

\* KubeDeploy.handle(ev): the goals of one event are upserted concurrently
\* (Promise.all over ev.data.SdmGoal.map); a process with NoReq has no goal.
handle(reqs) ==
    /\ AllIdle
    /\ \E p \in Procs : reqs[p] # NoReq
    /\ nOps < MaxEvents
    /\ nOps' = nOps + 1
    /\ proc' = [p \in Procs |->
                   IF reqs[p] = NoReq THEN Idle ELSE Begin("upsert", reqs[p], "ns_get")]
    /\ UNCHANGED <<cluster, faults>>

UpsertStep(p) ==
    \/ upsertNamespaceGet(p)
    \/ upsertNamespacePost(p)
    \/ upsertServiceGet(p)
    \/ upsertServicePost(p)
    \/ upsertDeploymentGet(p)
    \/ upsertDeploymentPatch(p)
    \/ upsertDeploymentPost(p)
    \/ upsertIngressGet(p)
    \/ upsertIngressPatch(p)
    \/ upsertIngressPost(p)

DeleteStep(p) ==
    \/ deleteIngressGet(p)
    \/ deleteIngressWrite(p)
    \/ deleteServiceGet(p)
    \/ deleteServiceDelete(p)
    \/ deleteDeploymentGet(p)
    \/ deleteDeploymentDelete(p)

\* ------------------------------------------------ the ingress algebra alone
AlgHosts == {NoHost, "h"}
AlgPaths == {"/p", "/q", "/r"}
AlgReqs ==
    { App(n, "", 80, pa, h, NoSpec, NoSpec) : n \in {"a", "b"}, pa \in AlgPaths, h \in AlgHosts }

Distinct(s, Key(_)) == \A i, j \in 1..Len(s) : Key(s[i]) = Key(s[j]) => i = j

\* The path lists and rule lists an ingress starts with: unique paths within a
\* rule, one rule per host.
InitPaths ==
    { ps \in UNION { [1..k -> [path : AlgPaths, serviceName : {"a", "b"}]] : k \in 0..MaxInitPaths } :
        Distinct(ps, LAMBDA e : e.path) }
InitRules ==
    { rs \in UNION { [1..k -> [host : AlgHosts, paths : InitPaths]] : k \in 0..Cardinality(AlgHosts) } :
        Distinct(rs, LAMBDA r : r.host) }

\* The ingress after the call: ingressPatch and ingressRemove change the rules
\* of the ingress they are given in place.
Applied(ing, r) ==
    IF r.kind = "patch" THEN [ing EXCEPT !.rules = r.rules]
    ELSE IF r.kind = "empty" THEN [ing EXCEPT !.rules = <<>>]
    ELSE ing

insert(req) ==
    /\ cluster' = [cluster EXCEPT !.ing = Applied(@, ingressPatch(@, req))]
    /\ UNCHANGED <<proc, nOps, faults>>

remove(req) ==
    /\ cluster' = [cluster EXCEPT !.ing = Applied(@, ingressRemove(@, req))]
    /\ UNCHANGED <<proc, nOps, faults>>

InitAlg ==
    /\ \E rs \in InitRules :
           cluster = [EmptyCluster EXCEPT !.ns = TRUE, !.ing = [exists |-> TRUE, rules |-> rs]]
    /\ proc = [p \in Procs |-> Idle]
    /\ nOps = 0
    /\ faults = 0

NextAlg ==
    \/ \E req \in AlgReqs : insert(req)
    \/ \E req \in AlgReqs : remove(req)

SpecAlg == InitAlg /\ [][NextAlg]_vars

Init ==
    /\ cluster = EmptyCluster
    /\ proc = [p \in Procs |-> Idle]
    /\ nOps = 0
    /\ faults = 0

\* One caller at a time: operations run one after another.
Next ==
    \/ \E req \in Apps : upsertApplication(1, req)
    \/ \E req \in DeleteReqs : deleteApplication(1, req)
    \/ upsertAgain(1)
    \/ Return(1)
    \/ UpsertStep(1)
    \/ DeleteStep(1)

Spec == Init /\ [][Next]_vars

\* ---------------------------------------------- deleteApplication alone
\* The clusters a delete of application a meets: the service and the
\* deployment of a there or not; no ingress, the route of a as the only rule,
\* beside a route of b, or its path held by b; any kinds the caller may not
\* change.
DelIngresses ==
    { NoIngress,
      [exists |-> TRUE,
       rules |-> <<[host |-> "h", paths |-> <<[path |-> "/p", serviceName |-> "a"]>>]>>],
      [exists |-> TRUE,
       rules |-> <<[host |-> "h", paths |-> <<[path |-> "/p", serviceName |-> "a"],
                                               [path |-> "/q", serviceName |-> "b"]>>]>>],
      [exists |-> TRUE,
       rules |-> <<[host |-> "h", paths |-> <<[path |-> "/p", serviceName |-> "b"]>>]>>] }

DelClusters ==
    { [ns |-> TRUE, svc |-> s,
       dep |-> [n \in ResNames |->
                  IF n = "a" /\ d
                  THEN [exists |-> TRUE, replicas |-> 1,
                        containers |-> <<[name |-> "a", image |-> "i1"]>>]
                  ELSE NoDep],
       ing |-> i, deny |-> dn] :
        s \in SUBSET {"a"}, d \in BOOLEAN, i \in DelIngresses,
        dn \in SUBSET {"ingress", "service", "deployment"} }

DelReqs == { App("a", "", NoPort, pa, "h", NoSpec, NoSpec) : pa \in {NoPath, "/p"} }

InitDel ==
    /\ cluster \in DelClusters
    /\ proc = [p \in Procs |-> Idle]
    /\ nOps = 0
    /\ faults = 0

NextDel ==
    \/ \E req \in DelReqs : deleteApplication(1, req)
    \/ deleteAgain(1)
    \/ Return(1)
    \/ DeleteStep(1)

\* The continuations of a promise chain are run by the event loop as soon as
\* the promise before them settles.
SpecDel == InitDel /\ [][NextDel]_vars /\ WF_vars(DeleteStep(1))

\* ---------------------------------------------------- the templates alone
\* The descriptors the templates are built for: every overlay of the model on
\* the deployment and on the service.
TmplApps ==
    { App(n, i, po, NoPath, NoHost, ds, ss) :
        n \in {"a", "b"}, i \in {"i1", "i2"}, po \in {NoPort, 80},
        ds \in {NoSpec, BadJson, ReplicasSpec, NameSpec, LabelsSpec, ContainersSpec},
        ss \in {NoSpec, BadJson, NameSpec, LabelsSpec} }

\* A call of a template function: what it returned, or that it threw.
Called(f, req, t) ==
    [Idle EXCEPT !.pc = "done", !.op = f, !.req = req,
                 !.out = IF t.ok THEN "returned" ELSE "thrown",
                 !.body = IF t.ok THEN t.doc ELSE NoBody]

callDeploymentTemplate(req) ==
    /\ proc' = [proc EXCEPT ![1] = Called("deploymentTemplate", req, deploymentTemplate(req))]
    /\ UNCHANGED <<cluster, nOps, faults>>

callServiceTemplate(req) ==
    /\ req.port # NoPort
    /\ proc' = [proc EXCEPT ![1] = Called("serviceTemplate", req, serviceTemplate(req))]
    /\ UNCHANGED <<cluster, nOps, faults>>

NextTmpl ==
    \/ \E req \in TmplApps : callDeploymentTemplate(req)
    \/ \E req \in TmplApps : callServiceTemplate(req)

SpecTmpl == Init /\ [][NextTmpl]_vars

\* Concurrent upserts of the goals of one event.
ConcApps ==
    { App(n, "i1", 80, t[2], t[1], NoSpec, NoSpec) :
        n \in {"a", "b"}, t \in {<<"h", "/p">>, <<"h", "/q">>, <<NoHost, "/p">>} }

NextConc ==
    \/ \E reqs \in [Procs -> ConcApps \cup {NoReq}] : handle(reqs)
    \/ \E p \in Procs : Return(p)
    \/ \E p \in Procs : UpsertStep(p)

\* The failures of the concurrent runs are those the race itself produces: no
\* transient failure is injected.
InitConc ==
    /\ cluster = EmptyCluster
    /\ proc = [p \in Procs |-> Idle]
    /\ nOps = 0
    /\ faults = MaxFaults

SpecConc == InitConc /\ [][NextConc]_vars

\* ------------------------------------------------------------------ claims
Done(p, op) == proc[p].pc = "done" /\ proc[p].op = op

Issued(log, k, v) == \E i \in 1..Len(log) : log[i].kind = k /\ log[i].verb = v
Succeeded(log, k, v) ==
    \E i \in 1..Len(log) : log[i].kind = k /\ log[i].verb = v /\ log[i].ok

HasRoute(ing, host, path, backend) ==
    /\ ing.exists
    /\ \E i \in 1..Len(ing.rules) :
         /\ ing.rules[i].host = host
         /\ \E j \in 1..Len(ing.rules[i].paths) :
              ing.rules[i].paths[j] = [path |-> path, serviceName |-> backend]

HasContainer(d, name, image) ==
    d.exists /\ \E i \in 1..Len(d.containers) : d.containers[i] = [name |-> name, image |-> image]

\* The (host, path) of req is held by another backend.
Conflict(ing, req) ==
    \E i \in 1..Len(ing.rules) :
        /\ ing.rules[i].host = req.host
        /\ \E j \in 1..Len(ing.rules[i].paths) :
             /\ ing.rules[i].paths[j].path = req.path
             /\ ing.rules[i].paths[j].serviceName # req.name

Rank(k) ==
    CASE k = "namespace" -> 1 [] k = "service" -> 2 [] k = "deployment" -> 3
      [] k = "ingress" -> 4

Posts(log) == SelectSeq(log, LAMBDA c : c.verb = "post")
OkPosts(log) == SelectSeq(log, LAMBDA c : c.verb = "post" /\ c.ok)

NothingExists(c, req) ==
    ~c.ns /\ req.name \notin c.svc /\ ~c.dep[req.name].exists /\ ~c.ing.exists

\* C2: for a descriptor with port and path, on a cluster where nothing exists,
\* the creates are issued in the order namespace, service, deployment, ingress:
\* the first create is the namespace's, and every later create either retries
\* the failed create before it or is the create of the next kind, issued after
\* the create before it has succeeded; a resolved run has created all four.
C2_CreateOrder ==
    \A p \in Procs :
        LET pr == proc[p]
            posts == Posts(pr.log)
            done == OkPosts(pr.log)
        IN  (pr.op = "upsert" /\ pr.req.port # NoPort /\ pr.req.path # NoPath
               /\ NothingExists(pr.snap, pr.req)) =>
                /\ \A i \in 1..Len(posts) :
                     IF i = 1 THEN posts[i].kind = "namespace"
                     ELSE \/ posts[i].kind = posts[i - 1].kind /\ ~posts[i - 1].ok
                          \/ Rank(posts[i].kind) = Rank(posts[i - 1].kind) + 1
                               /\ posts[i - 1].ok
                /\ pr.out = "resolved" =>
                     [i \in 1..Len(done) |-> done[i].kind] =
                         <<"namespace", "service", "deployment", "ingress">>

\* C2 witness: such a run has resolved after a create that had to be retried.
C2_Witness ==
    \E p \in Procs :
        /\ Done(p, "upsert") /\ proc[p].out = "resolved"
        /\ proc[p].req.port # NoPort /\ proc[p].req.path # NoPath
        /\ NothingExists(proc[p].snap, proc[p].req)
        /\ Len(Posts(proc[p].log)) = 5

\* The call log[i] is the last of 1 + retries failed attempts of one mutating call.
Exhausted(log, i) ==
    /\ i > retries
    /\ log[i].verb # "get"
    /\ \A j \in (i - retries)..i : log[j] = [log[i] EXCEPT !.ok = FALSE]

\* The step of upsertApplication fails at call i of the log: a retried call is
\* exhausted, a template cannot be built, or the path is held by another service.
UpsertFailsAt(pr, i) ==
    \/ Exhausted(pr.log, i)
    \/ /\ pr.log[i] = [kind |-> "service", verb |-> "get", ok |-> FALSE]
       /\ ~serviceTemplate(pr.req).ok
    \/ /\ pr.log[i] = [kind |-> "deployment", verb |-> "get", ok |-> FALSE]
       /\ ~deploymentTemplate(pr.req).ok
    \/ /\ pr.log[i] = [kind |-> "ingress", verb |-> "get", ok |-> TRUE]
       /\ Conflict(pr.snap.ing, pr.req)

\* The resource a successful create of the log has made is in the cluster.
Remains(c, req, call) ==
    CASE call.kind = "namespace" -> c.ns
      [] call.kind = "service" -> serviceTemplate(req).res.name \in c.svc
      [] call.kind = "deployment" -> c.dep[deploymentTemplate(req).res.name].exists
      [] call.kind = "ingress" -> c.ing.exists

\* C3: when a step of upsertApplication fails, upsertApplication rejects and the
\* failing call is the last call it issues; it rejects only then; it never
\* issues a delete, and what the earlier steps created is still in the cluster.
C3_FailureAborts ==
    \A p \in Procs :
        LET pr == proc[p]
        IN  pr.op = "upsert" =>
                /\ \A i \in 1..Len(pr.log) :
                     /\ pr.log[i].verb # "delete"
                     /\ UpsertFailsAt(pr, i) =>
                            i = Len(pr.log) /\ pr.pc = "done" /\ pr.out = "rejected"
                /\ pr.out = "rejected" =>
                     /\ Len(pr.log) > 0 /\ UpsertFailsAt(pr, Len(pr.log))
                     /\ \A i \in 1..Len(pr.log) :
                            (pr.log[i].verb = "post" /\ pr.log[i].ok) =>
                                Remains(cluster, pr.req, pr.log[i])

\* C3 witness: the deployment step has failed after the namespace and the
\* service had been created, and both are still there.
C3_Witness ==
    \E p \in Procs :
        /\ Done(p, "upsert") /\ proc[p].out = "rejected"
        /\ Succeeded(proc[p].log, "namespace", "post")
        /\ Succeeded(proc[p].log, "service", "post")
        /\ UpsertFailsAt(proc[p], Len(proc[p].log))
        /\ proc[p].log[Len(proc[p].log)].kind = "deployment"
        /\ cluster.ns /\ proc[p].req.name \in cluster.svc

\* C4 as stated: when the concurrent upserts of two applications with different
\* (host, path) have both resolved, the ingress holds the routes of both.
C4_NoLostRoute ==
    \A p, q \in Procs :
        LET a == proc[p].req
            b == proc[q].req
        IN  (/\ Done(p, "upsert") /\ proc[p].out = "resolved"
             /\ Done(q, "upsert") /\ proc[q].out = "resolved"
             /\ a.name # b.name /\ <<a.host, a.path>> # <<b.host, b.path>>) =>
                /\ HasRoute(cluster.ing, a.host, a.path, a.name)
                /\ HasRoute(cluster.ing, b.host, b.path, b.name)

\* C5: when upsertApplication has read an ingress in which (host, path) is bound
\* to another service, ingressPatch throws, upsertApplication rejects, it issues
\* no patch and no create on the ingress and the ingress is as it was.
C5_InsertConflict ==
    \A p \in Procs :
        LET pr == proc[p]
        IN  (pr.op = "upsert" /\ Succeeded(pr.log, "ingress", "get")
               /\ Conflict(pr.snap.ing, pr.req)) =>
                /\ ingressPatch(pr.snap.ing, pr.req) = [kind |-> "throw", rules |-> pr.snap.ing.rules]
                /\ pr.pc = "done" /\ pr.out = "rejected"
                /\ ~Issued(pr.log, "ingress", "patch") /\ ~Issued(pr.log, "ingress", "post")
                /\ cluster.ing = pr.snap.ing

\* C5 witness: an upsert of b has been rejected on a path that a holds.
C5_Witness ==
    \E p \in Procs :
        /\ Done(p, "upsert") /\ proc[p].req.name = "b"
        /\ Succeeded(proc[p].log, "ingress", "get")
        /\ Conflict(proc[p].snap.ing, proc[p].req)
        /\ HasRoute(cluster.ing, proc[p].req.host, proc[p].req.path, "a")

\* C6: when deleteApplication has read an ingress in which (host, path) is bound
\* to another service, ingressRemove throws, the ingress-rule removal fails, no
\* patch and no delete is issued on the ingress and the ingress is as it was.
C6_RemoveConflict ==
    \A p \in Procs :
        LET pr == proc[p]
        IN  (pr.op = "delete" /\ Succeeded(pr.log, "ingress", "get")
               /\ Conflict(pr.snap.ing, pr.req)) =>
                /\ ingressRemove(pr.snap.ing, pr.req) = [kind |-> "throw", rules |-> pr.snap.ing.rules]
                /\ ~Issued(pr.log, "ingress", "patch") /\ ~Issued(pr.log, "ingress", "delete")
                /\ cluster.ing = pr.snap.ing
                /\ pr.errs # <<>> /\ pr.errs[1] = "failed to remove rule from ingress"
                /\ pr.pc = "done" => pr.out = "rejected"

\* C6 witness: a delete of b has ended on a path that a holds.
C6_Witness ==
    \E p \in Procs :
        /\ Done(p, "delete") /\ proc[p].req.name = "b"
        /\ Succeeded(proc[p].log, "ingress", "get")
        /\ Conflict(proc[p].snap.ing, proc[p].req)
        /\ HasRoute(cluster.ing, proc[p].req.host, proc[p].req.path, "a")

\* C7: inserts and removes applied one after another to an ingress with one rule
\* per host and unique paths within each rule keep both facts.
C7_RulesWellFormed ==
    /\ Distinct(cluster.ing.rules, LAMBDA r : r.host)
    /\ \A i \in 1..Len(cluster.ing.rules) :
           Distinct(cluster.ing.rules[i].paths, LAMBDA e : e.path)

\* C7 witness: inserts have filled both rules beyond what the ingress started
\* with.
C7_Witness ==
    /\ Len(cluster.ing.rules) = 2
    /\ \A i \in 1..2 : Len(cluster.ing.rules[i].paths) = MaxInitPaths + 1

\* C8 as stated: when deleteApplication removes the only path of the only rule
\* of the ingress, it issues a delete on the ingress and no patch, and the
\* ingress is gone.
C8_LastRuleDeletesIngress ==
    \A p \in Procs :
        LET pr == proc[p]
        IN  (/\ Done(p, "delete") /\ ~pr.faulted /\ pr.req.path # NoPath
             /\ pr.snap.ing.exists
             /\ ingressRemove(pr.snap.ing, pr.req).kind = "empty") =>
                /\ Issued(pr.log, "ingress", "delete")
                /\ ~Issued(pr.log, "ingress", "patch")
                /\ ~cluster.ing.exists

C10_Idempotent ==
    \A p \in Procs :
        LET pr == proc[p]
        IN  (/\ Done(p, "upsert") /\ pr.run = 2 /\ pr.firstClean /\ ~pr.faulted
             /\ \A i \in 1..Len(pr.log) : pr.log[i].verb # "get" => pr.log[i].ok) =>
                /\ pr.out = "resolved"
                /\ cluster = pr.snap
                /\ \A i \in 1..Len(pr.log) : pr.log[i].verb # "post"
                /\ ~Issued(pr.log, "ingress", "patch")

\* The last call of the log is a create or a patch of the ingress that went through.
IngressWritten(pr) ==
    /\ Len(pr.log) > 0
    /\ pr.log[Len(pr.log)].kind = "ingress"
    /\ pr.log[Len(pr.log)].verb \in {"post", "patch"}
    /\ pr.log[Len(pr.log)].ok

\* C11 as stated: when upsertApplication has just created or patched the ingress
\* with a path whose backend is descriptor.name, a service of that name exists,
\* also for a descriptor with a path and no port.
C11_ServiceBeforeIngress ==
    \A p \in Procs :
        (proc[p].op = "upsert" /\ IngressWritten(proc[p])
           /\ HasRoute(cluster.ing, proc[p].req.host, proc[p].req.path, proc[p].req.name)) =>
            proc[p].req.name \in cluster.svc

C13_PatchAppliesOverlay ==
    \A p \in Procs :
        LET pr == proc[p]
        IN  (/\ Done(p, "upsert") /\ pr.out = "resolved"
             /\ Succeeded(pr.log, "deployment", "patch")
             /\ pr.req.deploymentSpec = ReplicasSpec) =>
                /\ HasContainer(cluster.dep[pr.req.name], pr.req.name, pr.req.image)
                /\ cluster.dep[pr.req.name].replicas = Stored(deploymentTemplate(pr.req).doc).replicas

\* The sub-deletions of the request of pr that have been started: the ingress-rule
\* removal of a request without a path returns at once.
Attempted(pr, k) == Issued(pr.log, k, "get") \/ (k = "ingress" /\ pr.req.path = NoPath)

SubDeletionFailed(pr, k) ==
    \/ \E i \in 1..Len(pr.log) : pr.log[i].kind = k /\ Exhausted(pr.log, i)
    \/ k = "ingress" /\ Succeeded(pr.log, "ingress", "get") /\ Conflict(pr.snap.ing, pr.req)

FailureMessage(k) ==
    CASE k = "ingress" -> "failed to remove rule from ingress"
      [] k = "service" -> "failed to delete service"
      [] k = "deployment" -> "failed to delete deployment"

FailedSubDeletions(pr) ==
    LET ks == SelectSeq(<<"ingress", "service", "deployment">>,
                        LAMBDA k : SubDeletionFailed(pr, k))
    IN  [i \in 1..Len(ks) |-> FailureMessage(ks[i])]

\* C15: a deleteApplication that has ended is rejected exactly when one of its
\* sub-deletions has failed, and its error message then lists the sub-deletions
\* that failed and no other.
C15_RejectsIffFailed ==
    \A p \in Procs :
        Done(p, "delete") =>
            LET failed == FailedSubDeletions(proc[p])
            IN  /\ proc[p].out = "rejected" <=> failed # <<>>
                /\ proc[p].out = "rejected" =>
                       proc[p].err = <<"Failed to delete application">> \o failed
                /\ proc[p].out = "resolved" => proc[p].err = <<>>

\* C15 witness: the service deletion alone has failed; the ingress rule and the
\* deployment have been removed and the error names the service only.
C15_Witness ==
    \E p \in Procs :
        /\ Done(p, "delete") /\ proc[p].out = "rejected"
        /\ proc[p].err = <<"Failed to delete application", "failed to delete service">>
        /\ Succeeded(proc[p].log, "ingress", "patch")
        /\ Succeeded(proc[p].log, "deployment", "delete")
        /\ SubDeletionFailed(proc[p], "service")

\* C16 as stated: after a deleteApplication that met no failed read has
\* resolved, there is no service and no deployment named req.name and the
\* ingress has no path (host, path) bound to req.name.
C16_DeletePostcondition ==
    \A p \in Procs :
        LET pr == proc[p]
        IN  (Done(p, "delete") /\ pr.out = "resolved" /\ ~pr.faulted) =>
                /\ pr.req.name \notin cluster.svc
                /\ ~cluster.dep[pr.req.name].exists
                /\ pr.req.path # NoPath =>
                       ~HasRoute(cluster.ing, pr.req.host, pr.req.path, pr.req.name)

\* C17 as stated: when the service of the request is absent while its
\* deployment and its ingress path exist and no call fails, deleteApplication
\* resolves, the deployment is deleted, the ingress is patched and has lost the
\* path, and no delete is issued for the service.
C17_AbsentServiceIsSuccess ==
    \A p \in Procs :
        LET pr == proc[p]
        IN  (/\ Done(p, "delete") /\ ~pr.faulted
             /\ pr.req.name \notin pr.snap.svc
             /\ pr.snap.dep[pr.req.name].exists
             /\ HasRoute(pr.snap.ing, pr.req.host, pr.req.path, pr.req.name)
             /\ pr.snap.deny = {}) =>
                /\ pr.out = "resolved"
                /\ ~Issued(pr.log, "service", "delete")
                /\ Succeeded(pr.log, "deployment", "delete")
                /\ ~cluster.dep[pr.req.name].exists
                /\ Succeeded(pr.log, "ingress", "patch")
                /\ ~HasRoute(cluster.ing, pr.req.host, pr.req.path, pr.req.name)

DeleteRank(k) == CASE k = "ingress" -> 1 [] k = "service" -> 2 [] k = "deployment" -> 3

C19_DeleteIdempotent ==
    \A p \in Procs :
        LET pr == proc[p]
        IN  (Done(p, "delete") /\ pr.run = 2 /\ pr.firstClean /\ ~pr.faulted) =>
                /\ pr.out = "resolved"
                /\ \A i \in 1..Len(pr.log) : pr.log[i].verb = "get"
                /\ cluster = pr.snap

\* The call c of the operation of pr is wrapped by retryP: every create, patch
\* and delete, and the get of the ingress by deleteApplication.
Retried(pr, c) == c.verb # "get" \/ (pr.op = "delete" /\ c.kind = "ingress")

SameCall(c, d) == c.kind = d.kind /\ c.verb = d.verb

AttemptsOf(pr, c) == Cardinality({ i \in 1..Len(pr.log) : SameCall(pr.log[i], c) })

RetryPcs == {"di_get", "di_write", "ds_delete", "dd_delete"}

\* C20: a call wrapped by retryP is attempted at most 6 times (1 + 5 retries);
\* an attempt that succeeds is the last one; the call is given up only after
\* the sixth failed attempt; and retryP always ends: a process never stays
\* for ever in a retried call.
C20_RetryBounded ==
    /\ [](\A p \in Procs :
             LET pr == proc[p]
             IN  /\ pr.att <= 6
                 /\ \A i \in 1..Len(pr.log) :
                        Retried(pr, pr.log[i]) =>
                            /\ AttemptsOf(pr, pr.log[i]) <= 6
                            /\ pr.log[i].ok =>
                                   \A j \in (i + 1)..Len(pr.log) : ~SameCall(pr.log[j], pr.log[i])
                            /\ (~pr.log[i].ok /\ i < Len(pr.log)
                                  /\ ~SameCall(pr.log[i + 1], pr.log[i])) =>
                                   AttemptsOf(pr, pr.log[i]) = 6)
    /\ \A p \in Procs : \A pc \in RetryPcs : (proc[p].pc = pc) ~> (proc[p].pc # pc)

\* C20 witness: in one deleteApplication the patch of the ingress failed once
\* and went through at its second attempt, and the delete of the service was
\* given up after six failed attempts.
C20_Witness ==
    \E p \in Procs :
        LET log == proc[p].log
        IN  /\ Done(p, "delete")
            /\ \E i \in 1..Len(log) :
                   /\ log[i] = [kind |-> "ingress", verb |-> "patch", ok |-> FALSE]
                   /\ i < Len(log)
                   /\ log[i + 1] = [kind |-> "ingress", verb |-> "patch", ok |-> TRUE]
            /\ AttemptsOf(proc[p], [kind |-> "ingress", verb |-> "patch"]) = 2
            /\ AttemptsOf(proc[p], [kind |-> "service", verb |-> "delete"]) = 6
            /\ ~Succeeded(log, "service", "delete")

\* C21 as stated: an existence-check read is never retried: in one
\* upsertApplication or deleteApplication every kind of resource is read at
\* most once, and only creates, patches and deletes are attempted again.
C21_ReadsOnce ==
    \A p \in Procs :
        \A i, j \in 1..Len(proc[p].log) :
            (proc[p].log[i].verb = "get" /\ proc[p].log[j].verb = "get"
               /\ proc[p].log[i].kind = proc[p].log[j].kind) => i = j

\* The prefix retryP gives to the final error of a mutating call of upsertApplication.
StepPrefix(c) ==
    CASE c.kind = "namespace" -> "Failed to Create namespace"
      [] c.kind = "service" -> "Failed to create service"
      [] c.kind = "deployment" /\ c.verb = "patch" -> "Failed to patch deployment"
      [] c.kind = "deployment" /\ c.verb = "post" -> "Failed to create deployment"
      [] c.kind = "ingress" /\ c.verb = "patch" -> "Failed to patch ingress"
      [] c.kind = "ingress" /\ c.verb = "post" -> "Failed to create ingress"

\* C22: when a mutating call of upsertApplication has failed at all its
\* attempts, the error upsertApplication rejects with reads, from left to
\* right: the prefix of upsertApplication, the prefix of the retried step, the
\* message of the error of the last attempt; each layer has added one prefix.
C22_ErrorBreadcrumbs ==
    \A p \in Procs :
        LET pr == proc[p]
            n == Len(pr.log)
        IN  (pr.op = "upsert" /\ n > 0 /\ Exhausted(pr.log, n)) =>
                /\ pr.pc = "done" /\ pr.out = "rejected"
                /\ pr.err = <<"upserting failed", StepPrefix(pr.log[n]), pr.cause>>
                /\ pr.cause \in {"timeout", "refused"}

\* C22 witness: a create has been given up after a last attempt that timed out,
\* the attempts before it having been refused.
C22_Witness ==
    \E p \in Procs :
        /\ Done(p, "upsert") /\ proc[p].out = "rejected"
        /\ Exhausted(proc[p].log, Len(proc[p].log))
        /\ proc[p].log[Len(proc[p].log)].verb = "post"
        /\ proc[p].err[3] = "timeout"

\* The number of path entries (host, path) of the rules.
Entries(rules, host, path) ==
    Cardinality(UNION { { <<i, j>> : j \in { k \in 1..Len(rules[i].paths) :
                                                rules[i].paths[k].path = path } } :
                        i \in { k \in 1..Len(rules) : rules[k].host = host } })

\* C23: an upsertApplication that reads an ingress which already binds
\* (host, path) to its service issues no patch and no create on the ingress and
\* leaves it as it is; and for the ingress of every state, inserting a tuple and
\* inserting it again gives "no change" the second time and one entry in all.
C23_InsertTwice ==
    /\ \A p \in Procs :
           LET pr == proc[p]
           IN  (/\ pr.op = "upsert" /\ Succeeded(pr.log, "ingress", "get")
                /\ HasRoute(pr.snap.ing, pr.req.host, pr.req.path, pr.req.name)) =>
                   /\ ~Issued(pr.log, "ingress", "patch") /\ ~Issued(pr.log, "ingress", "post")
                   /\ cluster.ing = pr.snap.ing
                   /\ Entries(cluster.ing.rules, pr.req.host, pr.req.path) = 1
                   /\ pr.pc = "done" /\ pr.out = "resolved"
    /\ \A req \in ConcApps :
           LET first == ingressPatch(cluster.ing, req)
               once == Applied(cluster.ing, first)
           IN  first.kind # "throw" =>
                   /\ ingressPatch(once, req) = [kind |-> "none", rules |-> once.rules]
                   /\ Entries(once.rules, req.host, req.path) = 1

\* C23 witness: the same descriptor has been upserted twice and the second run
\* has read the ingress and ended without a patch.
C23_Witness ==
    \E p \in Procs :
        /\ Done(p, "upsert") /\ proc[p].out = "resolved" /\ proc[p].run = 2
        /\ Succeeded(proc[p].log, "ingress", "get")
        /\ HasRoute(proc[p].snap.ing, proc[p].req.host, proc[p].req.path, proc[p].req.name)
        /\ ~Issued(proc[p].log, "ingress", "patch")

Without(rules, host, path) ==
    LET cut == [i \in 1..Len(rules) |->
                   IF rules[i].host = host
                   THEN [rules[i] EXCEPT !.paths = SelectSeq(@, LAMBDA e : e.path # path)]
                   ELSE rules[i]]
    IN  SelectSeq(cut, LAMBDA x : x.host # host \/ x.paths # <<>>)

\* C25: for every ingress and request, a patch made by ingressPatch is the
\* rules as they were with the new path at the end of the rule of the host, or
\* with a new rule of that one path at the end when the host has no rule; a
\* patch made by ingressRemove is the rules as they were without the matching
\* path; every other rule and path keeps its content and its place in the order.
C25_OnlyTargetChanges ==
    \A req \in AlgReqs :
        LET rules == cluster.ing.rules
            hostRules == { i \in 1..Len(rules) : rules[i].host = req.host }
            entry == [path |-> req.path, serviceName |-> req.name]
            ins == ingressPatch(cluster.ing, req)
            rem == ingressRemove(cluster.ing, req)
        IN  /\ ins.kind = "patch" =>
                   IF hostRules = {}
                   THEN ins.rules = rules \o <<[host |-> req.host, paths |-> <<entry>>]>>
                   ELSE ins.rules =
                            [i \in 1..Len(rules) |->
                                IF i \in hostRules
                                THEN [host |-> req.host, paths |-> rules[i].paths \o <<entry>>]
                                ELSE rules[i]]
            /\ ins.kind # "patch" => ins.rules = rules
            /\ rem.kind = "patch" => rem.rules = Without(rules, req.host, req.path)
            /\ rem.kind \in {"none", "throw"} => rem.rules = rules

\* C25 witness: an ingress of two rules with two paths each, where a request
\* adds a third path to a rule and another takes the first path out of a rule.
C25_Witness ==
    /\ Len(cluster.ing.rules) = 2
    /\ \A i \in 1..2 : Len(cluster.ing.rules[i].paths) = 2
    /\ \E req \in AlgReqs :
           /\ ingressPatch(cluster.ing, req).kind = "patch"
           /\ Len(ingressPatch(cluster.ing, req).rules) = 2
    /\ \E req \in AlgReqs :
           /\ ingressRemove(cluster.ing, req).kind = "patch"
           /\ cluster.ing.rules[1].paths[1] = [path |-> req.path, serviceName |-> req.name]
           /\ cluster.ing.rules[1].host = req.host

OfKind(log, k) == \E i \in 1..Len(log) : log[i].kind = k

\* C26: an upsertApplication of a descriptor without a port issues no call on a
\* service and leaves the services as they are; an upsertApplication or a
\* deleteApplication of a request without a path issues no call on the ingress
\* and leaves the ingress as it is.
C26_SkippedSteps ==
    \A p \in Procs :
        LET pr == proc[p]
        IN  /\ (pr.op = "upsert" /\ pr.req.port = NoPort) =>
                   ~OfKind(pr.log, "service") /\ cluster.svc = pr.snap.svc
            /\ (pr.op \in {"upsert", "delete"} /\ pr.req.path = NoPath) =>
                   ~OfKind(pr.log, "ingress") /\ cluster.ing = pr.snap.ing

\* C26 witness: an upsert without port and path has resolved on a cluster that
\* has an ingress.
C26_Witness ==
    \E p \in Procs :
        /\ Done(p, "upsert") /\ proc[p].out = "resolved"
        /\ proc[p].req.path = NoPath /\ proc[p].req.port = NoPort
        /\ proc[p].snap.ing.exists
        /\ OfKind(proc[p].log, "deployment")

\* The value m is the default d overlaid by o as C27 says: a key o does not
\* name has the value of d; a key whose value in o is an array has that array;
\* a key whose value in o is an object has the value of d overlaid by it in the
\* same way (the object itself where d has none); any other key of o has the
\* value of o.
RECURSIVE Overlaid(_, _, _)
Overlaid(d, o, m) ==
    /\ IsObj(m)
    /\ DOMAIN m.obj = DOMAIN d.obj \cup DOMAIN o.obj
    /\ \A k \in DOMAIN m.obj :
           IF k \notin DOMAIN o.obj THEN m.obj[k] = d.obj[k]
           ELSE IF IsObj(o.obj[k]) /\ k \in DOMAIN d.obj
           THEN IsObj(d.obj[k]) /\ Overlaid(d.obj[k], o.obj[k], m.obj[k])
           ELSE m.obj[k] = o.obj[k]

MaxLen == 2        \* characters of one part of an identity

joinString == <<"-", "0", "-">>

LowerCase == <<"a", "b", "c", "d", "e", "f", "g", "h", "i", "j", "k", "l", "m", "n", "o", "p", "q", "r", "s", "t", "u", "v", "w", "x", "y", "z">>
UpperCase == <<"A", "B", "C", "D", "E", "F", "G", "H", "I", "J", "K", "L", "M", "N", "O", "P", "Q", "R", "S", "T", "U", "V", "W", "X", "Y", "Z">>
Digits == {"0", "1", "2", "3", "4", "5", "6", "7", "8", "9"}

\* The locales of the process: String.prototype.toLocaleLowerCase follows the
\* default locale, and the Turkish ones map "I" to the dotless i.
Locales == {"en", "tr"}

toLocaleLowerCase(c, locale) ==
    IF c = "I" /\ locale = "tr" THEN "dotless-i"
    ELSE IF \E i \in 1..26 : UpperCase[i] = c
         THEN LowerCase[CHOOSE i \in 1..26 : UpperCase[i] = c]
         ELSE c

\* [a-z0-9\-]
InClass(c) == c \in {LowerCase[i] : i \in 1..26} \cup Digits \cup {"-"}

\* The rest of a string after a leading run of characters outside the class.
RECURSIVE SkipRun(_)
SkipRun(s) ==
    IF s = <<>> \/ InClass(Head(s)) THEN s ELSE SkipRun(Tail(s))

\* .replace(/[^a-z0-9\-]+/g, joinString)
RECURSIVE replace(_)
replace(s) ==
    IF s = <<>> THEN <<>>
    ELSE IF InClass(Head(s)) THEN <<Head(s)>> \o replace(Tail(s))
    ELSE joinString \o replace(SkipRun(s))

cleanNameNoSuffix(name, locale) ==
    <<"r">> \o replace([i \in 1..Len(name) |-> toLocaleLowerCase(name[i], locale)])

cleanName(name, locale) ==
    <<"r">> \o replace([i \in 1..Len(name) |-> toLocaleLowerCase(name[i], locale)])
            \o <<"9">>

getNamespace(owner, teamId, env, locale) ==
    cleanName(teamId \o joinString \o env, locale)

resourceNameDash(owner, repo, locale) ==
    cleanName(owner \o <<"-">> \o repo, locale)

resourceName(owner, repo, locale) ==
    cleanName(owner \o joinString \o repo, locale)

\* The identity of the test of deploymentTemplate.
TestOwner == <<"a", "t", "o", "m", "i", "s", "t", "-", "p", "l", "a", "y", "g", "r", "o", "u", "n", "d">>
TestRepo == <<"l", "o", "s", "g", "a", "t", "o", "s", "1">>
TestName == <<"r", "a", "t", "o", "m", "i", "s", "t", "-", "p", "l", "a", "y", "g", "r", "o", "u", "n", "d", "-", "0", "-", "l", "o", "s", "g", "a", "t", "o", "s", "1", "9">>

NameChars == {"a", "I", "0", "-", "_"}
NameWords == UNION { [1..n -> NameChars] : n \in 0..MaxLen }
\* The first part of an identity: the character next to the joinString is what
\* matters in it.
NameHeads == {<<>>} \cup { <<c>> : c \in NameChars }

\* A call of a name function: the function, its arguments, the locale of the
\* process.
NameCalls ==
    { [fn |-> "resourceName", args |-> <<o, r>>, locale |-> l] :
        o \in NameHeads \cup {TestOwner}, r \in NameWords \cup {TestRepo},
        l \in Locales }
    \cup
    { [fn |-> "getNamespace", args |-> <<o, t, e>>, locale |-> l] :
        o \in {<<>>, TestOwner}, t \in NameHeads, e \in NameWords \cup {TestRepo},
        l \in Locales }

Named(call, name) ==
    [Idle EXCEPT !.pc = "done", !.op = call.fn, !.req = call, !.body = name,
                 !.out = "returned"]

callResourceName(p) ==
    /\ proc[p].pc = "idle"
    /\ proc[p].req.fn = "resourceName"
    /\ LET c == proc[p].req
       IN  proc' = [proc EXCEPT ![p] =
                        Named(c, resourceName(c.args[1], c.args[2], c.locale))]
    /\ UNCHANGED <<cluster, nOps, faults>>

callGetNamespace(p) ==
    /\ proc[p].pc = "idle"
    /\ proc[p].req.fn = "getNamespace"
    /\ LET c == proc[p].req
       IN  proc' = [proc EXCEPT ![p] =
                        Named(c, getNamespace(c.args[1], c.args[2], c.args[3], c.locale))]
    /\ UNCHANGED <<cluster, nOps, faults>>

\* Both processes are handed the same call, so that a state holds the results
\* of two calls on equal inputs.
InitName ==
    /\ cluster = EmptyCluster
    /\ \E c \in NameCalls : proc = [p \in Procs |-> [Idle EXCEPT !.req = c]]
    /\ nOps = 0
    /\ faults = 0

NextName ==
    \/ \E p \in Procs : callResourceName(p)
    \/ \E p \in Procs : callGetNamespace(p)

SpecName == InitName /\ [][NextName]_vars


\* Claim C28: every derived name conforms to [a-z]([-a-z0-9]*[a-z0-9])?: it
\* starts with a lower-case letter, ends with a lower-case letter or a digit,
\* and holds only lower-case letters, digits and dashes.
Conforms(s) ==
    /\ Len(s) >= 1
    /\ s[1] \in {LowerCase[i] : i \in 1..26}
    /\ s[Len(s)] \in {LowerCase[i] : i \in 1..26} \cup Digits
    /\ \A i \in 1..Len(s) : InClass(s[i])

C28_NameConforms ==
    \A p \in Procs : proc[p].pc = "done" => Conforms(proc[p].body)

\* A name was derived from an identity that ends with a character outside the
\* class and holds an upper-case letter, under the Turkish locale.
C28_Witness ==
    \E p \in Procs :
        /\ Done(p, "resourceName")
        /\ proc[p].req.locale = "tr"
        /\ proc[p].req.args = << <<"I">>, <<"a", "_">> >>
        /\ proc[p].body = <<"r">> \o joinString \o joinString \o <<"a">>
                              \o joinString \o <<"9">>

C30_NotExcluded ==
    \A p \in Procs :
        proc[p].op = "upsert" /\ proc[p].pc \notin {"idle", "done"}
            => ENABLED UpsertStep(p)

\* The calls the log holds: of one kind and verb, with one outcome.
IssuedWith(p, k, v, oks) ==
    \E i \in 1..Len(proc[p].log) :
        /\ proc[p].log[i].kind = k
        /\ proc[p].log[i].verb = v
        /\ proc[p].log[i].ok \in oks

\* Both calls, for the same application, got a resource as absent and both
\* posted it; the cluster accepted one of the two posts only.
C30_Witness ==
    /\ proc[1].op = "upsert" /\ proc[2].op = "upsert"
    /\ proc[1].req = proc[2].req
    /\ \E k \in {"namespace", "service", "deployment", "ingress"} :
          /\ \A p \in Procs : IssuedWith(p, k, "get", {FALSE}) /\ IssuedWith(p, k, "post", BOOLEAN)
          /\ \E p \in Procs : IssuedWith(p, k, "post", {TRUE})
          /\ \E p \in Procs : IssuedWith(p, k, "post", {FALSE})

\* ---------------------------------------------------------------------------
\* KubeDeploy: eligibleDeployGoal, validateSdmGoal.

atmName == "@atomist/k8-automation"
atmMethod == "side-effect"

\* HandlerResult.
Success == [code |-> 0, message |-> ""]

eligibleDeployGoalAnyState(goal, commit) ==
    IF IsUndefined(goal.fulfillment)
    THEN [code |-> 1, message |-> "SDM goal contains no fulfillment"]
    ELSE IF goal.fulfillment.name # atmName
    THEN [code |-> 1, message |-> "SDM goal fulfillment name is not atmName"]
    ELSE IF goal.fulfillment.method # atmMethod
    THEN [code |-> 1, message |-> "SDM goal fulfillment method is not atmMethod"]
    ELSE Success

eligibleDeployGoal(goal, commit) ==
    IF IsUndefined(goal.fulfillment)
    THEN [code |-> 1, message |-> "SDM goal contains no fulfillment"]
    ELSE IF goal.fulfillment.name # atmName
    THEN [code |-> 1, message |-> "SDM goal fulfillment name is not atmName"]
    ELSE IF goal.fulfillment.method # atmMethod
    THEN [code |-> 1, message |-> "SDM goal fulfillment method is not atmMethod"]
    ELSE IF goal.state # "requested"
    THEN [code |-> 1, message |-> "SDM goal state is not requested"]
    ELSE Success

\* Properties of the kubernetes object of the goal data that are not there.
NoName == ""
NoNs == ""
NoEnv == "undefined"     \* environment not set, in the goal data or in the handler

\* sdmGoal.data: no data, a text, or the text JSON.stringify made of a value.
NoData == [text |-> "", value |-> Undefined]
Text(t) == [text |-> t, value |-> Undefined]
Stringify(v) == [text |-> "json", value |-> v]
Null == [null |-> TRUE]

\* JSON.parse(sdmGoal.data)
parseData(data) ==
    CASE data.text = "json" -> [ok |-> TRUE, value |-> data.value]
      [] data.text = "{}" -> [ok |-> TRUE, value |-> [kubernetes |-> Undefined]]
      [] data.text = "null" -> [ok |-> TRUE, value |-> Null]
      [] OTHER -> [ok |-> FALSE, value |-> Undefined]

\* kd.mode and kd.namespaces not configured; POD_NAMESPACE not set.
NoMode == ""
NoNamespaces == [given |-> FALSE, list |-> <<>>]
Namespaces(list) == [given |-> TRUE, list |-> list]
NoPodNs == ""

includes(list, x) == \E i \in 1..Len(list) : list[i] = x

Thrown(message) == [out |-> "thrown", app |-> Undefined, message |-> message]
NothingToDeploy == [out |-> "undefined", app |-> Undefined, message |-> ""]
Valid(kubeApp) == [out |-> "returned", app |-> kubeApp, message |-> ""]

\* Mutant: the name of the application is not required.
validateSdmGoalNoName(sdmGoal, kd, podNs) ==
    LET parsed == parseData(sdmGoal.data)
        sdmData == parsed.value
        kubeApp == sdmData.kubernetes
        ns == IF kubeApp.ns = NoNs THEN "default" ELSE kubeApp.ns
        mode == IF kd.mode = NoMode THEN "cluster" ELSE kd.mode
    IN  IF sdmGoal.data.text = ""
        THEN Thrown("SDM goal data property is false, cannot deploy")
        ELSE IF ~parsed.ok THEN Thrown("Failed to parse SDM goal data as JSON")
        ELSE IF sdmData = Null THEN Thrown("TypeError")
        ELSE IF IsUndefined(kubeApp)
        THEN Thrown("SDM goal data kubernetes property is false, cannot deploy")
        ELSE IF kubeApp.environment # kd.environment THEN NothingToDeploy
        ELSE IF mode = "cluster"
        THEN IF kd.namespaces.given /\ ~includes(kd.namespaces.list, ns)
             THEN NothingToDeploy
             ELSE Valid([kubeApp EXCEPT !.ns = ns])
        ELSE IF podNs = NoPodNs
        THEN Thrown("POD_NAMESPACE environment variable is not set")
        ELSE IF ns # podNs THEN NothingToDeploy
        ELSE Valid([kubeApp EXCEPT !.ns = ns])

\* Mutant: the namespace of the pod is looked at before the environment.
validateSdmGoalPodFirst(sdmGoal, kd, podNs) ==
    LET parsed == parseData(sdmGoal.data)
        sdmData == parsed.value
        kubeApp == sdmData.kubernetes
        ns == IF kubeApp.ns = NoNs THEN "default" ELSE kubeApp.ns
        mode == IF kd.mode = NoMode THEN "cluster" ELSE kd.mode
    IN  IF sdmGoal.data.text = ""
        THEN Thrown("SDM goal data property is false, cannot deploy")
        ELSE IF ~parsed.ok THEN Thrown("Failed to parse SDM goal data as JSON")
        ELSE IF sdmData = Null THEN Thrown("TypeError")
        ELSE IF IsUndefined(kubeApp)
        THEN Thrown("SDM goal data kubernetes property is false, cannot deploy")
        ELSE IF kubeApp.name = NoName
        THEN Thrown("SDM goal data kubernetes name property is false, cannot deploy")
        ELSE IF mode # "cluster" /\ podNs = NoPodNs
        THEN Thrown("POD_NAMESPACE environment variable is not set")
        ELSE IF kubeApp.environment # kd.environment THEN NothingToDeploy
        ELSE IF mode = "cluster"
        THEN IF kd.namespaces.given /\ ~includes(kd.namespaces.list, ns)
             THEN NothingToDeploy
             ELSE Valid([kubeApp EXCEPT !.ns = ns])
        ELSE IF ns # podNs THEN NothingToDeploy
        ELSE Valid([kubeApp EXCEPT !.ns = ns])

\* The result of validateSdmGoal: the application it returned (its namespace
\* set), undefined, or the error it threw.  podNs is process.env.POD_NAMESPACE.
validateSdmGoal(sdmGoal, kd, podNs) ==
    LET parsed == parseData(sdmGoal.data)
        sdmData == parsed.value
        kubeApp == sdmData.kubernetes
        ns == IF kubeApp.ns = NoNs THEN "default" ELSE kubeApp.ns
        mode == IF kd.mode = NoMode THEN "cluster" ELSE kd.mode
    IN  IF sdmGoal.data.text = ""
        THEN Thrown("SDM goal data property is false, cannot deploy")
        ELSE IF ~parsed.ok THEN Thrown("Failed to parse SDM goal data as JSON")
        ELSE IF sdmData = Null THEN Thrown("TypeError")
        ELSE IF IsUndefined(kubeApp)
        THEN Thrown("SDM goal data kubernetes property is false, cannot deploy")
        ELSE IF kubeApp.name = NoName
        THEN Thrown("SDM goal data kubernetes name property is false, cannot deploy")
        ELSE IF kubeApp.environment # kd.environment THEN NothingToDeploy
        ELSE IF mode = "cluster"
        THEN IF kd.namespaces.given /\ ~includes(kd.namespaces.list, ns)
             THEN NothingToDeploy
             ELSE Valid([kubeApp EXCEPT !.ns = ns])
        ELSE IF podNs = NoPodNs
        THEN Thrown("POD_NAMESPACE environment variable is not set")
        ELSE IF ns # podNs THEN NothingToDeploy
        ELSE Valid([kubeApp EXCEPT !.ns = ns])

\* The kubernetes object of the goal data: a KubeApplication.
KubeApp(n, e, ns, ds) ==
    [name |-> n, environment |-> e, ns |-> ns, port |-> NoPort, path |-> NoPath,
     host |-> NoHost, deploymentSpec |-> ds, serviceSpec |-> NoSpec]

Fulfillments ==
    {Undefined} \cup { [name |-> n, method |-> m] :
                          n \in {atmName, "@atomist/sdm"}, m \in {atmMethod, "sdm"} }
GoalStates == {"requested", "in_process", "success", "failure"}
GoalDatas ==
    {NoData, Text("{not valid json]"), Text("{}"), Text("null")}
    \cup { Stringify([kubernetes |-> KubeApp(n, e, ns, NoSpec)]) :
             n \in {NoName, "a"}, e \in {NoEnv, "prod", "test"},
             ns \in {NoNs, "default", "ns1"} }
SdmGoal(f, s, d) == [fulfillment |-> f, state |-> s, data |-> d]

\* The configuration of the handler and the environment of its process.
Handlers ==
    { [environment |-> e, mode |-> m, namespaces |-> nss] :
        e \in {NoEnv, "prod"}, m \in {NoMode, "cluster", "namespace"},
        nss \in {NoNamespaces, Namespaces(<<>>), Namespaces(<<"default">>),
                 Namespaces(<<"ns0", "ns1">>)} }
PodNamespaces == {NoPodNs, "default", "ns1"}

\* The calls of the two functions: the function and its arguments.
GoalCalls ==
    { [fn |-> "eligibleDeployGoal", goal |-> SdmGoal(f, s, NoData),
       kd |-> Undefined, podNs |-> NoPodNs] : f \in Fulfillments, s \in GoalStates }
    \cup
    { [fn |-> "validateSdmGoal", goal |-> SdmGoal(Undefined, "requested", d),
       kd |-> kd, podNs |-> podNs] :
        d \in GoalDatas, kd \in Handlers, podNs \in PodNamespaces }

\* A call that is over: its arguments and what it gave.
CalledGoal(call, res) ==
    [Idle EXCEPT !.pc = "done", !.op = call.fn, !.req = call, !.body = res]

callEligibleDeployGoal ==
    /\ proc[1].pc = "idle"
    /\ proc[1].req.fn = "eligibleDeployGoal"
    /\ LET c == proc[1].req
       IN  proc' = [proc EXCEPT ![1] =
                       CalledGoal(c, eligibleDeployGoal(c.goal, Undefined))]
    /\ UNCHANGED <<cluster, nOps, faults>>

callValidateSdmGoal ==
    /\ proc[1].pc = "idle"
    /\ proc[1].req.fn = "validateSdmGoal"
    /\ LET c == proc[1].req
       IN  proc' = [proc EXCEPT ![1] =
                       CalledGoal(c, validateSdmGoal(c.goal, c.kd, c.podNs))]
    /\ UNCHANGED <<cluster, nOps, faults>>

InitGoal ==
    /\ cluster = EmptyCluster
    /\ \E c \in GoalCalls : proc = [p \in Procs |-> IF p = 1 THEN [Idle EXCEPT !.req = c]
                                                      ELSE Idle]
    /\ nOps = 0
    /\ faults = 0

NextGoal ==
    \/ callEligibleDeployGoal
    \/ callValidateSdmGoal

SpecGoal == InitGoal /\ [][NextGoal]_vars

\* Valid goal data: parsed, with a kubernetes object that has a name.
ValidData(data) ==
    /\ data.text = "json"
    /\ ~IsUndefined(data.value.kubernetes)
    /\ data.value.kubernetes.name # NoName

\* The namespace of the application is one the handler manages.
InScope(kubeApp, kd, podNs) ==
    LET ns == IF kubeApp.ns = NoNs THEN "default" ELSE kubeApp.ns
    IN  IF kd.mode \in {NoMode, "cluster"}
        THEN kd.namespaces.given => \E i \in 1..Len(kd.namespaces.list) : kd.namespaces.list[i] = ns
        ELSE podNs # NoPodNs /\ ns = podNs

NoPod(kd, podNs) == kd.mode = "namespace" /\ podNs = NoPodNs

\* Claim C32 (as amended): on valid goal data validateSdmGoal returns undefined
\* when the environment of the application is not the handler's; with the same
\* environment it throws in namespace mode when POD_NAMESPACE is not set,
\* returns the application (ns defaulting to "default") when its namespace is
\* in scope, and returns undefined when it is not.
C32_ValidateScope ==
    Done(1, "validateSdmGoal") /\ ValidData(proc[1].req.goal.data) =>
        LET c == proc[1].req
            kubeApp == c.goal.data.value.kubernetes
            res == proc[1].body
        IN  IF kubeApp.environment # c.kd.environment THEN res.out = "undefined"
            ELSE IF NoPod(c.kd, c.podNs) THEN res.out = "thrown"
            ELSE IF InScope(kubeApp, c.kd, c.podNs)
            THEN /\ res.out = "returned"
                 /\ res.app.name = kubeApp.name
                 /\ res.app.ns = (IF kubeApp.ns = NoNs THEN "default" ELSE kubeApp.ns)
            ELSE res.out = "undefined"

\* An application without ns was returned in namespace mode, for the pod's
\* namespace "default".
C32_Witness ==
    /\ Done(1, "validateSdmGoal")
    /\ proc[1].req.kd.mode = "namespace"
    /\ proc[1].req.podNs = "default"
    /\ ValidData(proc[1].req.goal.data)
    /\ proc[1].req.goal.data.value.kubernetes.ns = NoNs
    /\ proc[1].body.out = "returned"
    /\ proc[1].body.app.ns = "default"

\* Claim C32 as stated: namespace mode without POD_NAMESPACE throws; otherwise
\* the application is returned when its environment is the handler's and its
\* namespace is in scope, and undefined is returned when not.
C32_AsStated ==
    Done(1, "validateSdmGoal") /\ ValidData(proc[1].req.goal.data) =>
        LET c == proc[1].req
            kubeApp == c.goal.data.value.kubernetes
            res == proc[1].body
        IN  IF NoPod(c.kd, c.podNs) THEN res.out = "thrown"
            ELSE IF kubeApp.environment = c.kd.environment /\ InScope(kubeApp, c.kd, c.podNs)
            THEN res.out = "returned"
            ELSE res.out = "undefined"

\* Claim C33: validateSdmGoal throws, and returns no application, when the goal
\* has no data, when the data does not parse, when the parsed data has no
\* kubernetes property or the kubernetes property has no name, whatever the
\* environment, the mode, the namespaces and POD_NAMESPACE are.
C33_InvalidThrows ==
    Done(1, "validateSdmGoal") /\ ~ValidData(proc[1].req.goal.data) =>
        /\ proc[1].body.out = "thrown"
        /\ IsUndefined(proc[1].body.app)

\* A goal without name, of another environment, in namespace mode: thrown for
\* the name.
C33_Witness ==
    /\ Done(1, "validateSdmGoal")
    /\ proc[1].req.goal.data.text = "json"
    /\ ~IsUndefined(proc[1].req.goal.data.value.kubernetes)
    /\ proc[1].req.goal.data.value.kubernetes.name = NoName
    /\ proc[1].req.goal.data.value.kubernetes.environment # proc[1].req.kd.environment
    /\ proc[1].req.kd.mode = "namespace"
    /\ proc[1].body = Thrown("SDM goal data kubernetes name property is false, cannot deploy")

\* Claim C34: eligibleDeployGoal returns Success if and only if the goal has a
\* fulfillment named "@atomist/k8-automation" with method "side-effect" and
\* its state is "requested"; in every other case the code of the result is not
\* zero.
C34_Eligible ==
    Done(1, "eligibleDeployGoal") =>
        LET goal == proc[1].req.goal
            wanted == /\ ~IsUndefined(goal.fulfillment)
                      /\ goal.fulfillment.name = "@atomist/k8-automation"
                      /\ goal.fulfillment.method = "side-effect"
                      /\ goal.state = "requested"
        IN  /\ wanted <=> proc[1].body = Success
            /\ ~wanted => proc[1].body.code # 0

\* The goal with the wanted fulfillment and state was found eligible.
C34_Witness ==
    /\ Done(1, "eligibleDeployGoal")
    /\ proc[1].req.goal.fulfillment = [name |-> atmName, method |-> atmMethod]
    /\ proc[1].req.goal.state = "requested"
    /\ proc[1].body = Success

\* ---------------------------------------------------------------------------
\* KubeDeploy.handle: every goal of the event is fetched its commit, checked,
\* deployed with upsertApplication and updated; the results are reduced.

Resolved(code) == [settled |-> "resolved", code |-> code]
Rejected == [settled |-> "rejected", code |-> 0]

\* Combine HandlerResults into one: the codes are summed.
RECURSIVE reduceResults(_)
reduceResults(results) ==
    IF results = <<>> THEN Success.code
    ELSE Head(results).code + reduceResults(Tail(results))

\* commit.image
NoImage == ""

\* The goals of the model, each with the image of the commit fetched for it and
\* with whether getKubeConfig finds a configuration when the goal is handled.
Task(goal, image, configured) ==
    [sdmGoal |-> goal, image |-> image, configured |-> configured]
Wanted == [name |-> atmName, method |-> atmMethod]
DeployApps ==
    { [KubeApp("a", "prod", NoNs, NoSpec) EXCEPT !.port = 80, !.path = "/p"],
      [KubeApp("b", "prod", NoNs, NoSpec) EXCEPT !.port = 80, !.path = "/q"],
      KubeApp("a", "prod", NoNs, BadJson) }
Tasks ==
    LET Plain == Stringify([kubernetes |-> KubeApp("a", "prod", NoNs, NoSpec)])
    IN  { Task(SdmGoal(Wanted, "requested", Stringify([kubernetes |-> k])), "i1", TRUE) :
            k \in DeployApps \cup {KubeApp(NoName, "prod", NoNs, NoSpec),
                                   KubeApp("a", "test", NoNs, NoSpec)} }
        \cup { Task(SdmGoal(Wanted, "success", Plain), "i1", TRUE),
               Task(SdmGoal(Wanted, "requested", Plain), NoImage, TRUE),
               Task(SdmGoal(Wanted, "requested", Plain), "i1", FALSE),
               Task(SdmGoal(Wanted, "requested", NoData), "i1", TRUE) }

\* The handler of the model: environment prod, cluster mode, every namespace.
ThisHandler == [environment |-> "prod", mode |-> NoMode, namespaces |-> NoNamespaces]

AllReturned == \A q \in Procs : proc[q].pc \in {"idle", "returned"}

\* handle: Promise.all over the goals of the event, each starting with
\* fetchCommitForSdmGoal.
handleSdmGoals(tasks) ==
    /\ AllReturned
    /\ \E p \in Procs : tasks[p] # NoTask
    /\ nOps < MaxEvents
    /\ nOps' = nOps + 1
    /\ proc' = [p \in Procs |->
                   IF tasks[p] = NoTask THEN Idle
                   ELSE [Idle EXCEPT !.pc = "fetch", !.op = "deploy", !.task = tasks[p]]]
    /\ UNCHANGED <<cluster, faults>>

Finish(pr, res) == [pr EXCEPT !.pc = "finished", !.result = res]

\* The request of upsertApplication: the application, the image of the commit.
upsertReq(kubeApp, image) ==
    App(kubeApp.name, image, kubeApp.port, kubeApp.path, kubeApp.host,
        kubeApp.deploymentSpec, kubeApp.serviceSpec)

\* Mutant: the goal is deployed as soon as its data parses to an application.
fetchedNotValidated(pr) ==
    LET t == pr.task
        valid == validateSdmGoal(t.sdmGoal, ThisHandler, NoPodNs)
    IN  IF ValidData(t.sdmGoal.data)
        THEN [Begin("upsert", upsertReq(t.sdmGoal.data.value.kubernetes, t.image), "ns_get")
                  EXCEPT !.task = t]
        ELSE Goto(pr, "fail_goal")

\* The continuation of fetchCommitForSdmGoal: the goal is dropped, failed, or
\* deployed.
fetched(pr) ==
    LET t == pr.task
        valid == validateSdmGoal(t.sdmGoal, ThisHandler, NoPodNs)
    IN  IF eligibleDeployGoal(t.sdmGoal, t.image) # Success THEN Finish(pr, Resolved(Success.code))
        ELSE IF t.image = NoImage THEN Goto(pr, "fail_goal")
        ELSE IF ~t.configured THEN Goto(pr, "fail_goal")
        ELSE IF valid.out = "thrown" THEN Goto(pr, "fail_goal")
        ELSE IF valid.out = "undefined" THEN Finish(pr, Resolved(Success.code))
        ELSE [Begin("upsert", upsertReq(valid.app, t.image), "ns_get") EXCEPT !.task = t]

\* fetchCommitForSdmGoal settles: rejected, or resolved and its continuation
\* run.
fetchCommitForSdmGoal(p) ==
    /\ proc[p].pc = "fetch"
    /\ \E ok \in BOOLEAN :
          proc' = [proc EXCEPT ![p] = IF ok THEN fetched(@) ELSE Finish(@, Rejected)]
    /\ UNCHANGED <<cluster, nOps, faults>>

\* An updateGoal call and whether it took effect.
Updated(pr, state, ok) == [pr EXCEPT !.updates = Append(@, [state |-> state, ok |-> ok])]

\* Mutant: the goal is updated to success whatever upsertApplication did.
deployedAnyway(p) ==
    /\ proc[p].pc = "done" /\ proc[p].op = "upsert" /\ proc[p].task # NoTask
    /\ \E ok \in BOOLEAN :
          proc' = [proc EXCEPT ![p] =
                      Finish(Updated(@, "success", ok), Resolved(IF ok THEN 0 ELSE 1))]
    /\ UNCHANGED <<cluster, nOps, faults>>

\* upsertApplication resolved: the goal is updated to success.
deployed(p) ==
    /\ proc[p].pc = "done" /\ proc[p].op = "upsert" /\ proc[p].task # NoTask
    /\ proc[p].out = "resolved"
    /\ \E ok \in BOOLEAN :
          proc' = [proc EXCEPT ![p] =
                      Finish(Updated(@, "success", ok), Resolved(IF ok THEN 0 ELSE 1))]
    /\ UNCHANGED <<cluster, nOps, faults>>

\* failGoal, called before upsertApplication or when it rejected: the goal is
\* updated to failure.
failGoal(p) ==
    /\ \/ proc[p].pc = "fail_goal"
       \/ /\ proc[p].pc = "done" /\ proc[p].op = "upsert" /\ proc[p].task # NoTask
          /\ proc[p].out = "rejected"
    /\ \E ok \in BOOLEAN :
          proc' = [proc EXCEPT ![p] =
                      Finish(Updated(@, "failure", ok), Resolved(IF ok THEN 1 ELSE 2))]
    /\ UNCHANGED <<cluster, nOps, faults>>

\* The goals the running event is handling.
Handling == { q \in Procs : proc[q].pc # "idle" }

\* Mutant: the result of handle is that of its first goal.
reducedFirst(results) ==
    IF \E i \in 1..Len(results) : results[i].settled = "rejected" THEN Rejected
    ELSE Resolved(results[1].code)

\* Promise.all(...).then(results => reduceResults(results))
reduced(results) ==
    IF \E i \in 1..Len(results) : results[i].settled = "rejected" THEN Rejected
    ELSE Resolved(reduceResults(results))

ResultsOf(S) ==
    IF S = {} THEN <<>>
    ELSE IF S = Procs THEN [i \in 1..2 |-> proc[i].result]
    ELSE <<proc[CHOOSE q \in S : TRUE].result>>

\* Every goal of the event is settled: handle settles.
handleReturn ==
    /\ Handling # {}
    /\ \A q \in Handling : proc[q].pc = "finished"
    /\ proc' = [q \in Procs |->
                   IF q \in Handling
                   THEN [proc[q] EXCEPT !.pc = "returned", !.handled = reduced(ResultsOf(Handling))]
                   ELSE proc[q]]
    /\ UNCHANGED <<cluster, nOps, faults>>

InitDeploy ==
    /\ cluster = EmptyCluster
    /\ proc = [p \in Procs |-> Idle]
    /\ nOps = 0
    /\ faults = MaxFaults

NextDeploy ==
    \/ \E tasks \in [Procs -> Tasks \cup {NoTask}] : handleSdmGoals(tasks)
    \/ \E p \in Procs : fetchCommitForSdmGoal(p)
    \/ \E p \in Procs : UpsertStep(p)
    \/ \E p \in Procs : deployed(p)
    \/ \E p \in Procs : failGoal(p)
    \/ handleReturn

SpecDeploy == InitDeploy /\ [][NextDeploy]_vars

\* Claim C31: KubeDeploy.handle calls upsertApplication for a goal only if the
\* goal is eligible, its commit has an image, the Kubernetes configuration
\* loads and validateSdmGoal returns an application; for a goal without name
\* or of another environment no call is made to the cluster at all.
C31_OnlyValidDeployed ==
    \A p \in Procs :
        proc[p].task # NoTask =>
            LET t == proc[p].task
                data == t.sdmGoal.data
            IN  /\ proc[p].op = "upsert" \/ proc[p].log # <<>> =>
                      /\ eligibleDeployGoal(t.sdmGoal, t.image) = Success
                      /\ t.image # NoImage
                      /\ t.configured
                      /\ validateSdmGoal(t.sdmGoal, ThisHandler, NoPodNs).out = "returned"
                /\ (/\ data.text = "json"
                    /\ \/ data.value.kubernetes.name = NoName
                       \/ data.value.kubernetes.environment # ThisHandler.environment) =>
                      proc[p].op # "upsert" /\ proc[p].log = <<>>

\* The event is over: the goal of another environment made no call to the
\* cluster and was not updated, the other goal of the event was deployed.
C31_Witness ==
    \E p, q \in Procs :
        /\ proc[p].pc = "returned" /\ proc[q].pc = "returned"
        /\ proc[p].task.sdmGoal.data.text = "json"
        /\ proc[p].task.sdmGoal.data.value.kubernetes.environment = "test"
        /\ proc[p].log = <<>> /\ proc[p].updates = <<>>
        /\ proc[q].op = "upsert" /\ proc[q].out = "resolved" /\ proc[q].log # <<>>

\* The goal could not be deployed or could not be updated.
Failed(q) ==
    \/ proc[q].op = "upsert" /\ proc[q].out = "rejected"
    \/ \E i \in 1..Len(proc[q].updates) : ~proc[q].updates[i].ok

\* Claim C37: a goal for which upsertApplication was called is updated once
\* and no more: to success only after upsertApplication resolved, to failure
\* when it rejected; and the code of the result of handle is not zero when the
\* deployment or the update of a goal of the event failed.
C37_UpdatedOnce ==
    \A p \in Procs :
        /\ proc[p].op = "upsert" /\ proc[p].task # NoTask =>
              /\ Len(proc[p].updates) <= 1
              /\ proc[p].pc \in {"finished", "returned"} => Len(proc[p].updates) = 1
              /\ \A i \in 1..Len(proc[p].updates) :
                    /\ proc[p].updates[i].state = "success" => proc[p].out = "resolved"
                    /\ proc[p].updates[i].state = "failure" => proc[p].out = "rejected"
        /\ proc[p].pc = "returned" /\ proc[p].handled.settled = "resolved" =>
              ((\E q \in Procs : proc[q].pc = "returned" /\ Failed(q))
                   => proc[p].handled.code # 0)

\* The event is over: one goal was deployed and updated to success, the
\* deployment of the other was rejected and it was updated to failure, and the
\* code of the result of handle is 1.
C37_Witness ==
    \E p, q \in Procs :
        /\ proc[p].pc = "returned" /\ proc[q].pc = "returned"
        /\ proc[p].op = "upsert" /\ proc[p].out = "resolved"
        /\ proc[p].updates = <<[state |-> "success", ok |-> TRUE]>>
        /\ proc[q].op = "upsert" /\ proc[q].out = "rejected"
        /\ proc[q].updates = <<[state |-> "failure", ok |-> TRUE]>>
        /\ proc[p].handled = Resolved(1)

\* ---------------------------------------------------------------------------
\* docker.ts: dockerNameComponent.
MaxComponent == 4   \* characters of a name component

\* [A-Za-z0-9] and \w
IsAlnum(c) == c \in {LowerCase[i] : i \in 1..26} \cup {UpperCase[i] : i \in 1..26} \cup Digits
IsWord(c) == IsAlnum(c) \/ c = "_"

\* .replace(/^[^A-Za-z0-9]/, "x")
replaceFirst(s) ==
    IF s # <<>> /\ ~IsAlnum(Head(s)) THEN <<"x">> \o Tail(s) ELSE s

\* .replace(/[^A-Za-z0-9]$/, "x")
replaceLast(s) ==
    IF s # <<>> /\ ~IsAlnum(s[Len(s)]) THEN SubSeq(s, 1, Len(s) - 1) \o <<"x">> ELSE s

\* .replace(/[^\w.\-]/g, "_")
replaceInvalid(s) ==
    [i \in 1..Len(s) |-> IF IsWord(s[i]) \/ s[i] \in {".", "-"} THEN s[i] ELSE "_"]

\* The rest of a string after its leading characters c.
RECURSIVE SkipChar(_, _)
SkipChar(s, c) == IF s = <<>> \/ Head(s) # c THEN s ELSE SkipChar(Tail(s), c)

\* .replace(/\.+/g, ".")
RECURSIVE replacePeriods(_)
replacePeriods(s) ==
    IF s = <<>> THEN <<>>
    ELSE IF Head(s) = "." THEN <<".">> \o replacePeriods(SkipChar(s, "."))
    ELSE <<Head(s)>> \o replacePeriods(Tail(s))

\* .replace(/___+/g, "__")
RECURSIVE replaceUnderscores(_)
replaceUnderscores(s) ==
    IF s = <<>> THEN <<>>
    ELSE IF Len(s) >= 3 /\ s[1] = "_" /\ s[2] = "_" /\ s[3] = "_"
    THEN <<"_", "_">> \o replaceUnderscores(SkipChar(s, "_"))
    ELSE <<Head(s)>> \o replaceUnderscores(Tail(s))

dockerNameComponent(component, locale) ==
    replaceUnderscores(replacePeriods(replaceInvalid(replaceLast(replaceFirst(
        [i \in 1..Len(component) |-> toLocaleLowerCase(component[i], locale)])))))

ComponentChars == {"a", "I", "0", ".", "_", "-", "&"}
Components == UNION { [1..n -> ComponentChars] : n \in 0..MaxComponent }

callDockerNameComponent ==
    /\ proc[1].pc = "idle"
    /\ LET c == proc[1].req
       IN  proc' = [proc EXCEPT ![1] =
                       [Idle EXCEPT !.pc = "done", !.op = "dockerNameComponent", !.req = c,
                                    !.body = dockerNameComponent(c.component, c.locale)]]
    /\ UNCHANGED <<cluster, nOps, faults>>

InitDocker ==
    /\ cluster = EmptyCluster
    /\ \E s \in Components, l \in Locales :
          proc = [p \in Procs |->
                     IF p = 1 THEN [Idle EXCEPT !.req = [component |-> s, locale |-> l]]
                     ELSE Idle]
    /\ nOps = 0
    /\ faults = 0

NextDocker == callDockerNameComponent

SpecDocker == InitDocker /\ [][NextDocker]_vars

\* A separator character of a name component, and the separators: one period,
\* one or two underscores, one or more dashes.
IsSep(c) == c \in {".", "_", "-"}
Separator(s) ==
    \/ s = <<".">>
    \/ s = <<"_">> \/ s = <<"_", "_">>
    \/ s # <<>> /\ \A i \in 1..Len(s) : s[i] = "-"

\* A valid Docker name component: lower-case letters, digits and separators,
\* every maximal run of separator characters being one separator, none at the
\* start or at the end.
ValidComponent(s) ==
    /\ \A i \in 1..Len(s) :
          s[i] \in {LowerCase[k] : k \in 1..26} \cup Digits \/ IsSep(s[i])
    /\ s # <<>> => ~IsSep(s[1]) /\ ~IsSep(s[Len(s)])
    /\ \A i, j \in 1..Len(s) :
          (/\ i <= j
           /\ \A k \in i..j : IsSep(s[k])
           /\ i = 1 \/ ~IsSep(s[i - 1])
           /\ j = Len(s) \/ ~IsSep(s[j + 1])) => Separator(SubSeq(s, i, j))

\* Claim C35: for every input dockerNameComponent returns a valid Docker name
\* component, and a valid name component is returned unchanged.
C35_ValidComponent ==
    Done(1, "dockerNameComponent") =>
        /\ ValidComponent(proc[1].body)
        /\ ValidComponent(proc[1].req.component) => proc[1].body = proc[1].req.component

\* Claim C36: the service and the deployment upsertApplication creates are
\* named as the descriptor, whatever its overlays hold: after an upsert that
\* resolved, the deployment (and, with a port, the service) of the descriptor's
\* name is in the cluster, and no resource has a name no descriptor has.
C36_NamedAsDescriptor ==
    /\ \A n \in ResNames :
          cluster.dep[n].exists \/ n \in cluster.svc => \E req \in Apps : req.name = n
    /\ \A p \in Procs :
          Done(p, "upsert") /\ proc[p].out = "resolved" =>
              /\ cluster.dep[proc[p].req.name].exists
              /\ proc[p].req.port # NoPort => proc[p].req.name \in cluster.svc

\* ---------------------------------------------------------------------------
\* googleContainerBuilder.ts: googleContainerBuild.  The tarball of the sources
\* is created and uploaded, the build is created and polled; the cleanup
\* actions registered on the way are run before the promise settles.  The log
\* holds the cleanup actions that were run.

\* The statuses the poll resolves with (a build that is not done is polled
\* again), EXPIRED standing for a status the switch does not know.
PolledStatuses == {"SUCCESS", "FAILURE", "INTERNAL_ERROR", "TIMEOUT", "CANCELLED", "EXPIRED"}

\* The switch on the status of the build: the AtomistBuildStatus, "" when the
\* promise is rejected.
atomistStatus(status) ==
    CASE status = "SUCCESS" -> "passed"
      [] status = "FAILURE" -> "failed"
      [] status = "INTERNAL_ERROR" -> "error"
      [] status = "CANCELLED" -> "canceled"
      [] OTHER -> ""

\* ContainerBuildAuthRequest
BuildReqs == { [owner |-> "o", repo |-> r] : r \in {"r1", "r2"} }

googleContainerBuild(req) ==
    /\ proc[1].pc \in {"idle", "settled"}
    /\ nOps < MaxOps
    /\ nOps' = nOps + 1
    /\ proc' = [proc EXCEPT ![1] = [Idle EXCEPT !.pc = "tar", !.op = "build", !.req = req]]
    /\ UNCHANGED <<cluster, faults>>

\* A step of the chain rejected: the chain goes to its .catch.
BuildReject(pr, e) == [pr EXCEPT !.pc = "catch", !.err = e]

\* tar.create and its continuation: the removal of the tarball is registered,
\* the storage client is made and the upload started.
tarCreate ==
    /\ proc[1].pc = "tar"
    /\ \E ok \in BOOLEAN, client \in BOOLEAN :
          proc' = [proc EXCEPT ![1] =
              IF ~ok THEN BuildReject(@, <<"failed to create tarball">>)
              ELSE LET pr == [@ EXCEPT !.cleanup = Append(@, "unlink")]
                   IN  IF ~client THEN BuildReject(pr, <<"failed to create storage client">>)
                       ELSE Goto(pr, "upload")]
    /\ UNCHANGED <<cluster, nOps, faults>>

\* The upload and its continuation: the deletion of the uploaded object is
\* registered and the build created.
upload ==
    /\ proc[1].pc = "upload"
    /\ \E ok \in BOOLEAN, promisified \in BOOLEAN :
          proc' = [proc EXCEPT ![1] =
              IF ~ok THEN BuildReject(@, <<"failed to upload">>)
              ELSE LET pr == [@ EXCEPT !.cleanup = Append(@, "delete")]
                   IN  IF ~promisified THEN BuildReject(pr, <<"failed to promisify builds.create">>)
                       ELSE Goto(pr, "create")]
    /\ UNCHANGED <<cluster, nOps, faults>>

\* builds.create and its continuation: the response is checked and the poll
\* started.
createBuild ==
    /\ proc[1].pc = "create"
    /\ \E res \in {"rejected", "no data", "no build", "no id", "no promisify", "build"} :
          proc' = [proc EXCEPT ![1] =
              IF res = "build" THEN Goto(@, "poll")
              ELSE BuildReject(@, IF res = "rejected" THEN <<"failed to start build">>
                                  ELSE <<res>>)]
    /\ UNCHANGED <<cluster, nOps, faults>>

\* The poll settles: with the status of the build, or rejected when the
\* retries are used up.
getBuild ==
    /\ proc[1].pc = "poll"
    /\ \/ \E status \in PolledStatuses :
             proc' = [proc EXCEPT ![1] = [Goto(@, "status") EXCEPT !.status = status]]
       \/ proc' = [proc EXCEPT ![1] = BuildReject(@, <<"failed to get final build status">>)]
    /\ UNCHANGED <<cluster, nOps, faults>>

\* Promise.all(cleanup.map(c => c())): every registered action is run; oks
\* tells which of them succeed.
RunCleanup(pr, oks) ==
    [pr EXCEPT !.log = @ \o [i \in 1..Len(pr.cleanup) |->
                                 [kind |-> pr.cleanup[i], verb |-> "cleanup", ok |-> oks[i]]]]

\* Mutant: a cleanup that fails after the build result is there rejects the
\* continuation, and the chain goes to its .catch.
cleanedUpStrict(pr, oks) ==
    IF \A i \in 1..Len(oks) : oks[i] THEN [pr EXCEPT !.pc = "settled", !.out = "resolved"]
    ELSE BuildReject(pr, <<"failed to clean up">>)

\* The cleanup after the build result is there: the result is returned, be the
\* cleanup done or failed.
cleanedUp(pr, oks) == [pr EXCEPT !.pc = "settled", !.out = "resolved"]

\* The last continuation: the switch on the status, then the cleanup and the
\* build result.
buildResult ==
    /\ proc[1].pc = "status"
    /\ \E oks \in [1..Len(proc[1].cleanup) -> BOOLEAN] :
          LET pr == proc[1]
              cbRes == [kind |-> atomistStatus(pr.status), rules |-> <<>>]
          IN  proc' = [proc EXCEPT ![1] =
                  IF atomistStatus(pr.status) = ""
                  THEN BuildReject(pr, IF pr.status = "TIMEOUT"
                                       THEN <<"build did not complete in allotted time">>
                                       ELSE <<"unexpected Google Container Builder build status">>)
                  ELSE cleanedUp(RunCleanup([pr EXCEPT !.body = cbRes], oks), oks)]
    /\ UNCHANGED <<cluster, nOps, faults>>

\* .catch: the cleanup, then the rejection with the error, to which a failure
\* of the cleanup is added.
catchBuild ==
    /\ proc[1].pc = "catch"
    /\ \E oks \in [1..Len(proc[1].cleanup) -> BOOLEAN] :
          proc' = [proc EXCEPT ![1] =
              [RunCleanup(@, oks) EXCEPT
                  !.pc = "settled", !.out = "rejected",
                  !.err = IF \A i \in 1..Len(oks) : oks[i] THEN @
                          ELSE @ \o <<"failed to clean up">>]]
    /\ UNCHANGED <<cluster, nOps, faults>>

NextBuild ==
    \/ \E req \in BuildReqs : googleContainerBuild(req)
    \/ tarCreate
    \/ upload
    \/ createBuild
    \/ getBuild
    \/ buildResult
    \/ catchBuild

SpecBuild == Init /\ [][NextBuild]_vars

\* How often a cleanup action was run.
Runs(pr, c) == Cardinality({ i \in 1..Len(pr.log) : pr.log[i].kind = c })

\* Claim C38: in googleContainerBuild every cleanup action registered is run
\* exactly once when the promise has settled, resolved or rejected, and never
\* more than once before; a build whose status gives a build result resolves
\* with it, whether the cleanup failed or not.
C38_CleanupOnce ==
    LET pr == proc[1]
        registered == { pr.cleanup[i] : i \in 1..Len(pr.cleanup) }
    IN  pr.op = "build" =>
            /\ \A c \in {"unlink", "delete"} :
                  /\ Runs(pr, c) <= 1
                  /\ Runs(pr, c) = 1 => c \in registered
                  /\ pr.pc = "settled" /\ c \in registered => Runs(pr, c) = 1
            /\ pr.pc = "settled" /\ pr.body.kind # "none" => pr.out = "resolved"
            /\ pr.pc = "settled" /\ pr.out = "resolved" => pr.body.kind = atomistStatus(pr.status)

\* The build failed, the deletion of the uploaded object failed too, and the
\* build result was returned all the same, both cleanup actions run once.
C38_Witness ==
    /\ proc[1].op = "build" /\ proc[1].pc = "settled" /\ proc[1].out = "resolved"
    /\ proc[1].body.kind = "failed"
    /\ proc[1].log = <<[kind |-> "unlink", verb |-> "cleanup", ok |-> TRUE],
                       [kind |-> "delete", verb |-> "cleanup", ok |-> FALSE]>>

====
